---- MODULE Spec2Model ----
(***************************************************************************)
(* A model of the sandboxed terminal: the path resolver of                 *)
(* terminal/sandbox.py, the command handlers of terminal/commands.py as    *)
(* dispatched by terminal/cli.py, and the websocket/pty bridge of          *)
(* terminal/web.py.                                                        *)
(*                                                                         *)
(* A path is the sequence of its components ("/" is <<>>); a component is  *)
(* a name or "..". pathlib keeps ".." segments and drops "." segments, so  *)
(* "." never appears.  A token is a path string as typed: [abs, parts].    *)
(***************************************************************************)
EXTENDS Integers, Sequences, FiniteSets, TLC

\* ------------------------------------------------------------------ bounds
MaxDepth == 4       \* longest path a command may create (components)
MaxLines == 2       \* longest file contents (lines) a command may produce
MaxCmds == 3        \* lines given to the engine in one session
MaxMsgs == 2        \* messages the remote caller sends in one bridge session
MaxOut == 2         \* chunks of output the child produces
MaxTasks == 2       \* tasks created by _read_pty that wait to run
MaxTok == 3         \* longest path token given to the resolver (components)

\* ------------------------------------------------------------- file system
VARIABLES
    fs,             \* the host file tree: path -> node
    fs0,            \* the host file tree at session start
    sandbox_root,   \* SandboxManager.sandbox_root
    cwd,            \* SandboxManager.cwd
    engine,         \* "running" | "terminated" | "crashed" (TerminalCLI.run)
    ncmds,          \* lines executed so far
    last,           \* the command name of the last line executed
    out,            \* what the last line printed
    line,           \* the last line given: its command and arguments as typed
    handler,        \* the FileHandler of the root logger: "ok" | "failing"
    audit           \* logs/commands.log: its length and its last record

fsvars == <<fs, fs0, sandbox_root, cwd, engine, ncmds, last, out, line, handler, audit>>

\* ------------------------------------------------------------------ bridge
VARIABLES
    pc,             \* where websocket_pty stands: "fork" | "loop" | "done"
    wsstate,        \* the connection: "open" | "closed"
    closecode,      \* the close code the handler sent (0: none)
    inbox,          \* ASGI messages waiting for ws.receive()
    nmsgs,          \* messages the remote caller has sent
    child,          \* the forked child: "none" | "running" | "exited"
    image,          \* the program the child runs: "none" | "engine" | "server"
    master_fd,      \* the master descriptor: "none" | "open" | "closed"
    reader,         \* _read_pty is registered with loop.add_reader
    eofmode,        \* what a read gives once the child is gone: "zero" | "EIO"
    ptyout,         \* chunks the child has written, not yet read
    nout,           \* chunks the child has produced
    tasks,          \* tasks created by _read_pty, not yet run
    sent,           \* chunks sent on the websocket
    written,        \* payloads written to the master descriptor
    winsize,        \* the pty window size set by ioctl
    tlog,           \* the calls of the finally block, in order: [step, ok]
    nsig,           \* SIGTERMs delivered to the child
    eofSeen,        \* a read of the master descriptor returned zero bytes
    errSeen         \* a read of the master descriptor raised

bvars == <<pc, wsstate, closecode, inbox, nmsgs, child, image, master_fd, reader, eofmode,
           ptyout, nout, tasks, sent, written, winsize, tlog, nsig, eofSeen, errSeen>>

\* ---------------------------------------------------------------- resolver
VARIABLE probe      \* a token given to the resolver and what came back

\* ---------------------------------------------------------------- sessions
VARIABLE sess       \* several bridge sessions in one event loop, and the kernel

vars == <<fsvars, bvars, probe, sess>>

\* Path.cwd() of the engine process and the base_dir of main.py
repo_root == <<"h">>
base_dir == "s"

\* Notation: With(e, LAMBDA x : body) is body with x standing for the value
\* of e, as a local variable assigned once (x = e) stands in the lines after it
With(v, Body(_)) == Body(v)

Parent(p) == IF p = <<>> THEN <<>> ELSE SubSeq(p, 1, Len(p) - 1)

IsPrefix(r, p) == Len(r) <= Len(p) /\ SubSeq(p, 1, Len(r)) = r

\* Path(token): cwd / token
Join(base, tok) == IF tok.abs THEN tok.parts ELSE base \o tok.parts

\* A node: a directory, a file (data: its lines) or a symbolic link.  mode is
\* the permission bits; mt is 0 for a timestamp older than the session and 1
\* for one set during the session.
Dir(m, t) == [kind |-> "dir", data |-> <<>>, mode |-> m, mt |-> t, target |-> <<>>]
File(d, m, t) == [kind |-> "file", data |-> d, mode |-> m, mt |-> t, target |-> <<>>]
Link(t) == [kind |-> "link", data |-> <<>>, mode |-> 511, mt |-> 0, target |-> t]

DirMode == 493      \* 0o755: 0o777 under the usual umask 022
FileMode == 420     \* 0o644: 0o666 under the usual umask 022

IsDir(f, p) == p \in DOMAIN f /\ f[p].kind = "dir"
IsFile(f, p) == p \in DOMAIN f /\ f[p].kind = "file"
IsLink(f, p) == p \in DOMAIN f /\ f[p].kind = "link"

\* The walk of a path from "/", one component at a time.  p is what
\* os.path.realpath (Path.resolve(strict=False)) returns: links followed,
\* ".." popped, a missing component kept as written.  perr is the kernel's
\* verdict on the directory that holds the final component ("ok", "ENOENT",
\* "ENOTDIR"), pok says it is "ok", and ok says the kernel finds the whole
\* path (final link followed).
RECURSIVE Walk(_, _, _, _)
Walk(f, cur, rest, st) ==
    IF rest = <<>>
    THEN [p |-> cur, ok |-> st = "ok" /\ cur \in DOMAIN f, pok |-> st = "ok", perr |-> st]
    ELSE LET c == Head(rest)
             more == Tail(rest)
             st2 == IF st # "ok" THEN st
                    ELSE IF cur \notin DOMAIN f THEN "ENOENT"
                    ELSE IF f[cur].kind # "dir" THEN "ENOTDIR"
                    ELSE "ok"
         IN  IF c = ".."
             THEN IF more = <<>>
                  THEN [p |-> Parent(cur), ok |-> st2 = "ok", pok |-> st2 = "ok", perr |-> st2]
                  ELSE Walk(f, Parent(cur), more, st2)
             ELSE LET np == Append(cur, c) IN
                  IF IsLink(f, np)
                  THEN Walk(f, <<>>, f[np].target \o more, st2)
                  ELSE IF more = <<>>
                       THEN [p |-> np, ok |-> st2 = "ok" /\ np \in DOMAIN f,
                             pok |-> st2 = "ok", perr |-> st2]
                       ELSE Walk(f, np, more, st2)

\* Path.resolve(strict=False)
Resolve(f, path) == Walk(f, <<>>, path, "ok").p

\* The kernel's lookup of a path, final link followed (stat, open, chmod, utime)
Stat(f, path) == Walk(f, <<>>, path, "ok")

\* The kernel's lookup of a path, final link not followed (mkdir, rename)
LStat(f, path) ==
    IF path = <<>> \/ path[Len(path)] = ".." THEN Stat(f, path)
    ELSE With(Stat(f, Parent(path)), LAMBDA w :
         LET perr == IF ~w.ok THEN (IF w.perr # "ok" THEN w.perr ELSE "ENOENT")
                     ELSE IF ~IsDir(f, w.p) THEN "ENOTDIR" ELSE "ok"
             np == Append(w.p, path[Len(path)])
         IN  [p |-> np, ok |-> perr = "ok" /\ np \in DOMAIN f,
              pok |-> perr = "ok", perr |-> perr])

Exists(f, path) == Stat(f, path).ok
PIsDir(f, path) == With(Stat(f, path), LAMBDA w : w.ok /\ IsDir(f, w.p))
PIsFile(f, path) == With(Stat(f, path), LAMBDA w : w.ok /\ IsFile(f, w.p))

\* Path.relative_to(sandbox_root) succeeds
Inside(root, p) == IsPrefix(root, p)

\* resolve_read without the call of resolve(): the candidate is checked and
\* returned as written
resolve_read_unresolved(f, root, cur, tok) ==
    LET candidate == Join(cur, tok)
    IN  IF Inside(root, candidate)
        THEN [err |-> FALSE, path |-> candidate]
        ELSE [err |-> TRUE, path |-> candidate]

\* SandboxManager.resolve_read: [err, path]
resolve_read(f, root, cur, tok) ==
    LET candidate == Resolve(f, Join(cur, tok))
    IN  IF Inside(root, candidate)
        THEN [err |-> FALSE, path |-> candidate]
        ELSE [err |-> TRUE, path |-> candidate]

\* SandboxManager.resolve_write: [err, path]
resolve_write(f, root, cur, tok) ==
    LET candidate == Join(cur, tok)
        parent == Resolve(f, Parent(candidate))
    IN  IF Inside(root, parent)
        THEN [err |-> FALSE, path |-> candidate]
        ELSE [err |-> TRUE, path |-> candidate]


\* ------------------------------------------------------- os and shutil calls
\* Each returns [fs, err]: the tree afterwards and the exception raised
\* ("none" when it returns normally).

Ret(f, e) == [fs |-> f, err |-> e]

Put(f, p, node) == [q \in DOMAIN f \cup {p} |-> IF q = p THEN node ELSE f[q]]

Under(f, p) == {q \in DOMAIN f : IsPrefix(p, q)}

\* every path at or below p removed
Prune(f, p) == [q \in DOMAIN f \ Under(f, p) |-> f[q]]

\* the subtree at src re-rooted at dst
Graft(f, src, dst) ==
    LET moved == {dst \o SubSeq(q, Len(src) + 1, Len(q)) : q \in Under(f, src)}
        keep == DOMAIN f \ Under(f, src)
    IN  [q \in keep \cup moved |->
            IF q \in moved THEN f[src \o SubSeq(q, Len(dst) + 1, Len(q))] ELSE f[q]]

OSErrorOf(perr) == IF perr = "ENOTDIR" THEN "NotADirectoryError" ELSE "FileNotFoundError"

\* os.mkdir(path)
os_mkdir(f, path) ==
    With(LStat(f, path), LAMBDA w :
        IF w.ok THEN Ret(f, "FileExistsError")
        ELSE IF ~w.pok THEN Ret(f, OSErrorOf(w.perr))
        ELSE Ret(Put(f, w.p, Dir(DirMode, 1)), "none"))

\* Path.mkdir(parents, exist_ok) of pathlib
RECURSIVE path_mkdir(_, _, _, _)
path_mkdir(f, path, parents, exist_ok) ==
    With(os_mkdir(f, path), LAMBDA m :
        IF m.err = "none" THEN m
        ELSE IF m.err = "FileNotFoundError"
        THEN IF ~parents \/ path = <<>> THEN m
             ELSE With(path_mkdir(f, Parent(path), TRUE, TRUE), LAMBDA pm :
                      IF pm.err # "none" THEN pm
                      ELSE path_mkdir(pm.fs, path, FALSE, exist_ok))
        ELSE IF ~exist_ok \/ ~PIsDir(f, path) THEN m
        ELSE Ret(f, "none"))

\* os.utime(path, None)
os_utime(f, path) ==
    With(Stat(f, path), LAMBDA w :
        IF ~w.ok THEN Ret(f, OSErrorOf(w.perr))
        ELSE Ret([f EXCEPT ![w.p].mt = 1], "none"))

\* open that truncates in mode "a" as in mode "w"
open_write_truncating(f, path, append, lines) ==
    With(Stat(f, path), LAMBDA w :
        IF w.ok
        THEN IF ~IsFile(f, w.p) THEN Ret(f, "IsADirectoryError")
             ELSE Ret([f EXCEPT ![w.p].data = lines, ![w.p].mt = 1], "none")
        ELSE IF ~w.pok THEN Ret(f, OSErrorOf(w.perr))
        ELSE Ret(Put(f, w.p, File(lines, FileMode, 1)), "none"))

\* open(path, "w" | "a") followed by one write of `lines` and close
open_write(f, path, append, lines) ==
    With(Stat(f, path), LAMBDA w :
        IF w.ok
        THEN IF ~IsFile(f, w.p) THEN Ret(f, "IsADirectoryError")
             ELSE Ret([f EXCEPT ![w.p].data = IF append THEN @ \o lines ELSE lines,
                                ![w.p].mt = 1], "none")
        ELSE IF ~w.pok THEN Ret(f, OSErrorOf(w.perr))
        ELSE Ret(Put(f, w.p, File(lines, FileMode, 1)), "none"))

\* Path.touch(): utime when the path exists, else create it empty
path_touch(f, path) ==
    IF Exists(f, path) THEN os_utime(f, path) ELSE open_write(f, path, TRUE, <<>>)

\* os.chmod(path, mode)
os_chmod(f, path, mode) ==
    With(Stat(f, path), LAMBDA w :
        IF ~w.ok THEN Ret(f, OSErrorOf(w.perr))
        ELSE Ret([f EXCEPT ![w.p].mode = mode], "none"))

\* Path.unlink() of a resolved path
path_unlink(f, p) == Ret(Prune(f, p), "none")

\* shutil.rmtree(path) of a resolved directory
shutil_rmtree(f, p) == Ret(Prune(f, p), "none")

\* shutil.copy2(src, dst): dst/basename(src) when dst is a directory; the
\* source is opened first, then the destination is created or truncated, the
\* data copied and, last, mode and times copied (copystat)
shutil_copy2(f, src, dst) ==
    LET real_dst == IF PIsDir(f, dst) THEN Append(dst, src[Len(src)]) ELSE dst
    IN  With(Stat(f, src), LAMBDA s : With(Stat(f, real_dst), LAMBDA d :
        IF s.ok /\ d.ok /\ s.p = d.p THEN Ret(f, "SameFileError")
        ELSE IF ~s.ok THEN Ret(f, OSErrorOf(s.perr))
        ELSE IF ~IsFile(f, s.p) THEN Ret(f, "IsADirectoryError")
        ELSE IF d.ok /\ ~IsFile(f, d.p) THEN Ret(f, "IsADirectoryError")
        ELSE IF ~d.ok /\ ~d.pok THEN Ret(f, OSErrorOf(d.perr))
        ELSE Ret(Put(f, d.p, File(f[s.p].data, f[s.p].mode, f[s.p].mt)), "none")))

\* os.path.abspath's normalisation: ".." segments popped as written
RECURSIVE LexNorm(_)
LexNorm(path) ==
    IF path = <<>> THEN <<>>
    ELSE LET c == path[Len(path)]
             front == LexNorm(SubSeq(path, 1, Len(path) - 1))
         IN  IF c = ".." THEN Parent(front) ELSE Append(front, c)

\* os.makedirs(path) with exist_ok=False, as copytree calls it
RECURSIVE os_makedirs(_, _)
os_makedirs(f, path) ==
    LET head == Parent(path)
    IN  With(IF path # <<>> /\ ~Exists(f, head) THEN os_makedirs(f, head) ELSE Ret(f, "none"),
             LAMBDA up :
                 IF up.err \notin {"none", "FileExistsError"} THEN up
                 ELSE os_mkdir(up.fs, path))

\* shutil.move(src, dst) of a resolved src: os.rename, and on its failure
\* copytree + rmtree (a directory) or copy2 + unlink (a file)
shutil_move(f, src, dst) ==
    With(PIsDir(f, dst), LAMBDA dstIsDir :
    With(IF dstIsDir THEN Append(dst, src[Len(src)]) ELSE dst, LAMBDA real_dst :
    With(LStat(f, real_dst), LAMBDA d :
    LET destinsrc == IsPrefix(src, LexNorm(dst))
    IN  IF dstIsDir /\ src \in DOMAIN f /\ Stat(f, dst).p = src
        THEN Ret(f, "none")
        ELSE IF dstIsDir /\ Exists(f, real_dst) THEN Ret(f, "Error")
        ELSE IF src \notin DOMAIN f THEN Ret(f, "FileNotFoundError")
        ELSE IF d.pok /\ d.p = src THEN Ret(f, "none")
        ELSE IF IsDir(f, src)
        THEN IF d.pok /\ ~d.ok /\ ~IsPrefix(src, d.p)
             THEN Ret(Graft(f, src, d.p), "none")
             ELSE IF destinsrc THEN Ret(f, "Error")
             ELSE IF d.pok /\ IsPrefix(src, d.p) /\ ~d.ok
             THEN Ret(Prune(f, src), "none")
             ELSE With(os_makedirs(f, real_dst), LAMBDA mk :
                      IF mk.err # "none" THEN mk
                      ELSE Ret(Graft(mk.fs, src, LStat(mk.fs, real_dst).p), "none"))
        ELSE IF d.ok /\ IsDir(f, d.p) THEN Ret(f, "IsADirectoryError")
        ELSE IF d.pok THEN Ret(Put(Prune(f, src), d.p, f[src]), "none")
        ELSE Ret(f, OSErrorOf(d.perr)))))

\* ------------------------------------------------------- command handlers
\* A printed line is [k, t]: the message and the path or token it names.
\* A handler returns [fs, cwd, out, exc, se]: the tree and cursor it leaves,
\* the lines it printed, and the exception that left it ("none", "SandboxError"
\* with its message se, or "error" for any other exception).

NoTok == [abs |-> FALSE, parts |-> <<>>]
Tok(parts) == [abs |-> FALSE, parts |-> parts]
AbsTok(parts) == [abs |-> TRUE, parts |-> parts]
Msg(k, t) == [k |-> k, t |-> t, words |-> <<>>]

R(f, c, o, e) == [fs |-> f, cwd |-> c, out |-> o, exc |-> e, se |-> Msg("", NoTok)]
Raise(f, c, o, k, tok) ==
    [fs |-> f, cwd |-> c, out |-> o, exc |-> "SandboxError", se |-> Msg(k, tok)]

ReadDenied == "Access denied: path escapes sandbox"
WriteDenied == "Access denied: path escapes sandbox (parent)"

\* utils.to_sandbox_posix
to_sandbox_posix(p, root) ==
    IF IsPrefix(root, p) THEN Tok(SubSeq(p, Len(root) + 1, Len(p))) ELSE AbsTok(p)

\* a.startswith("-")
DashNames == {"-p", "-r", "-rf", "-fr"}
IsFlag(a) == ~a.abs /\ a.parts # <<>> /\ a.parts[1] \in DashNames

RECURSIVE Filter(_, _)
Filter(args, wantFlag) ==
    IF args = <<>> THEN <<>>
    ELSE IF IsFlag(Head(args)) = wantFlag
         THEN <<Head(args)>> \o Filter(Tail(args), wantFlag)
         ELSE Filter(Tail(args), wantFlag)

Elems(seq) == {seq[i] : i \in DOMAIN seq}

\* pwd that prints the cursor relative to the root without the leading slash
pwd_no_slash(f, root, cur, args) ==
    IF ~IsPrefix(root, cur) THEN R(f, cur, <<>>, "error")
    ELSE R(f, cur, <<Msg("pwd", Tok(SubSeq(cur, Len(root) + 1, Len(cur))))>>, "none")

\* CommandsExecutor.pwd
pwd(f, root, cur, args) ==
    IF ~IsPrefix(root, cur) THEN R(f, cur, <<>>, "error")
    ELSE R(f, cur, <<Msg("pwd", AbsTok(SubSeq(cur, Len(root) + 1, Len(cur))))>>, "none")

\* cd without the confinement check: the resolved target is entered wherever
\* it lies
cd_unchecked(f, root, cur, args) ==
    With(IF args = <<>> THEN root ELSE Resolve(f, Join(cur, args[1])), LAMBDA target :
        IF ~PIsDir(f, target)
        THEN R(f, cur, <<Msg("cd: no such directory", to_sandbox_posix(target, root))>>, "none")
        ELSE R(f, target, <<>>, "none"))

\* cd that moves the cursor before it looks at the target
cd_eager(f, root, cur, args) ==
    With(IF args = <<>> THEN [err |-> FALSE, path |-> root]
         ELSE resolve_read(f, root, cur, args[1]), LAMBDA rr :
        IF rr.err THEN Raise(f, cur, <<>>, ReadDenied, args[1])
        ELSE IF ~PIsDir(f, rr.path)
        THEN R(f, rr.path, <<Msg("cd: no such directory", to_sandbox_posix(rr.path, root))>>, "none")
        ELSE R(f, rr.path, <<>>, "none"))

\* CommandsExecutor.cd
cd(f, root, cur, args) ==
    With(IF args = <<>> THEN [err |-> FALSE, path |-> root]
         ELSE resolve_read(f, root, cur, args[1]), LAMBDA rr :
        IF rr.err THEN Raise(f, cur, <<>>, ReadDenied, args[1])
        ELSE IF ~PIsDir(f, rr.path)
        THEN R(f, cur, <<Msg("cd: no such directory", to_sandbox_posix(rr.path, root))>>, "none")
        ELSE R(f, rr.path, <<>>, "none"))

\* mkdir whose -p creates the parents and still refuses an existing target
mkdir_no_exist_ok(f, root, cur, args) ==
    IF args = <<>> THEN R(f, cur, <<Msg("mkdir: missing operand", NoTok)>>, "none")
    ELSE LET flags == Filter(args, TRUE)
             nonflags == Filter(args, FALSE)
         IN  IF nonflags = <<>> THEN R(f, cur, <<>>, "error")
             ELSE LET path == nonflags[1]
                      recursive == Tok(<<"-p">>) \in Elems(flags)
                  IN  With(resolve_write(f, root, cur, path), LAMBDA rw :
                      IF rw.err THEN Raise(f, cur, <<>>, WriteDenied, path)
                      ELSE With(path_mkdir(f, rw.path, recursive, FALSE), LAMBDA m :
                      IF m.err = "none" THEN R(m.fs, cur, <<>>, "none")
                      ELSE IF m.err = "FileExistsError"
                      THEN R(m.fs, cur, <<Msg("mkdir: File exists", path)>>, "none")
                      ELSE R(m.fs, cur, <<>>, "error")))

\* CommandsExecutor.mkdir
mkdir(f, root, cur, args) ==
    IF args = <<>> THEN R(f, cur, <<Msg("mkdir: missing operand", NoTok)>>, "none")
    ELSE LET flags == Filter(args, TRUE)
             nonflags == Filter(args, FALSE)
         IN  IF nonflags = <<>> THEN R(f, cur, <<>>, "error")
             ELSE LET path == nonflags[1]
                      recursive == Tok(<<"-p">>) \in Elems(flags)
                  IN  With(resolve_write(f, root, cur, path), LAMBDA rw :
                      IF rw.err THEN Raise(f, cur, <<>>, WriteDenied, path)
                      ELSE With(path_mkdir(f, rw.path, recursive, recursive), LAMBDA m :
                      IF m.err = "none" THEN R(m.fs, cur, <<>>, "none")
                      ELSE IF m.err = "FileExistsError"
                      THEN R(m.fs, cur, <<Msg("mkdir: File exists", path)>>, "none")
                      ELSE R(m.fs, cur, <<>>, "error")))

\* rm that removes a directory whatever the flags
rm_always_recursive(f, root, cur, args) ==
    IF args = <<>> THEN R(f, cur, <<Msg("rm: missing operand", NoTok)>>, "none")
    ELSE LET nonflags == Filter(args, FALSE)
         IN  IF nonflags = <<>> THEN R(f, cur, <<>>, "error")
             ELSE With(nonflags[1], LAMBDA path :
                  With(resolve_read(f, root, cur, path), LAMBDA rr :
                  LET shown == to_sandbox_posix(rr.path, root)
                  IN  IF rr.err THEN Raise(f, cur, <<>>, ReadDenied, path)
                      ELSE IF ~Exists(f, rr.path)
                      THEN R(f, cur, <<Msg("rm: No such file or directory", shown)>>, "none")
                      ELSE IF PIsFile(f, rr.path)
                      THEN R(path_unlink(f, rr.path).fs, cur, <<>>, "none")
                      ELSE R(shutil_rmtree(f, rr.path).fs, cur, <<>>, "none")))

\* CommandsExecutor.rm
rm(f, root, cur, args) ==
    IF args = <<>> THEN R(f, cur, <<Msg("rm: missing operand", NoTok)>>, "none")
    ELSE LET flags == Filter(args, TRUE)
             nonflags == Filter(args, FALSE)
         IN  IF nonflags = <<>> THEN R(f, cur, <<>>, "error")
             ELSE With(nonflags[1], LAMBDA path :
                  With(resolve_read(f, root, cur, path), LAMBDA rr :
                  LET shown == to_sandbox_posix(rr.path, root)
                  IN  IF rr.err THEN Raise(f, cur, <<>>, ReadDenied, path)
                      ELSE IF ~Exists(f, rr.path)
                      THEN R(f, cur, <<Msg("rm: No such file or directory", shown)>>, "none")
                      ELSE IF PIsFile(f, rr.path)
                      THEN R(path_unlink(f, rr.path).fs, cur, <<>>, "none")
                      ELSE IF Elems(flags) \cap {Tok(<<"-r">>), Tok(<<"-rf">>), Tok(<<"-fr">>)} # {}
                      THEN R(shutil_rmtree(f, rr.path).fs, cur, <<>>, "none")
                      ELSE R(f, cur, <<Msg("rm: Is a directory (use -r)", shown)>>, "none")))

\* CommandsExecutor.touch, from argument i on
RECURSIVE touch_from(_, _, _, _, _)
touch_from(f, root, cur, args, o) ==
    IF args = <<>> THEN R(f, cur, o, "none")
    ELSE LET a == Head(args)
         IN  With(resolve_write(f, root, cur, a), LAMBDA rw :
             IF rw.err
             THEN touch_from(f, root, cur, Tail(args), Append(o, Msg(WriteDenied, a)))
             ELSE IF Exists(f, rw.path)
             THEN touch_from(os_utime(f, rw.path).fs, root, cur, Tail(args), o)
             ELSE With(path_mkdir(f, Parent(rw.path), TRUE, TRUE), LAMBDA mk :
                  IF mk.err # "none" THEN R(mk.fs, cur, o, "error")
                  ELSE With(path_touch(mk.fs, rw.path), LAMBDA t :
                       IF t.err # "none" THEN R(t.fs, cur, o, "error")
                       ELSE touch_from(t.fs, root, cur, Tail(args), o))))

touch(f, root, cur, args) ==
    IF args = <<>> THEN R(f, cur, <<Msg("touch: missing file operand", NoTok)>>, "none")
    ELSE touch_from(f, root, cur, args, <<>>)

GT == Tok(<<">">>)
GTGT == Tok(<<">>">>)

\* list.index
IndexOf(args, a) == CHOOSE i \in DOMAIN args : args[i] = a /\ \A j \in 1..(i - 1) : args[j] # a

\* CommandsExecutor.echo: a line of a file is the words joined by single spaces
echo(f, root, cur, args) ==
    IF args = <<>> THEN R(f, cur, <<[k |-> "echo", t |-> NoTok, words |-> <<>>]>>, "none")
    ELSE IF GT \in Elems(args) \/ GTGT \in Elems(args)
    THEN LET append == GTGT \in Elems(args)
             idx == IF append THEN IndexOf(args, GTGT) ELSE IndexOf(args, GT)
             text == SubSeq(args, 1, idx - 1)
         IN  IF Len(args) <= idx
             THEN R(f, cur, <<Msg("echo: no file specified for redirection", NoTok)>>, "none")
             ELSE LET filename == args[idx + 1]
                  IN  With(resolve_write(f, root, cur, filename), LAMBDA rw :
                      IF rw.err THEN Raise(f, cur, <<>>, WriteDenied, filename)
                      ELSE With(open_write(f, rw.path, append, <<text>>), LAMBDA w :
                      IF w.err # "none" THEN R(w.fs, cur, <<>>, "error")
                      ELSE R(w.fs, cur, <<>>, "none")))
    ELSE R(f, cur, <<[k |-> "echo", t |-> NoTok, words |-> args]>>, "none")

\* the loop of cp over several sources
RECURSIVE cp_each(_, _, _, _, _)
cp_each(f, root, cur, srcs, dest_p) ==
    IF srcs = <<>> THEN R(f, cur, <<>>, "none")
    ELSE LET s == Head(srcs)
         IN  With(resolve_read(f, root, cur, s), LAMBDA rr :
             IF rr.err THEN Raise(f, cur, <<>>, ReadDenied, s)
             ELSE IF ~PIsFile(f, rr.path) THEN cp_each(f, root, cur, Tail(srcs), dest_p)
             ELSE With(shutil_copy2(f, rr.path, Append(dest_p, rr.path[Len(rr.path)])),
                       LAMBDA c :
                  IF c.err # "none" THEN R(c.fs, cur, <<>>, "error")
                  ELSE cp_each(c.fs, root, cur, Tail(srcs), dest_p)))

\* cp that starts on several sources without looking at the destination
cp_unchecked_dest(f, root, cur, args) ==
    IF Len(args) < 2 THEN R(f, cur, <<Msg("cp: missing operand", NoTok)>>, "none")
    ELSE LET srcs == SubSeq(args, 1, Len(args) - 1)
             dest == args[Len(args)]
         IN  With(resolve_write(f, root, cur, dest), LAMBDA rw :
             IF rw.err THEN Raise(f, cur, <<>>, WriteDenied, dest)
             ELSE With(rw.path, LAMBDA dest_p :
             IF Len(srcs) > 1
             THEN cp_each(f, root, cur, srcs, dest_p)
             ELSE With(resolve_read(f, root, cur, srcs[1]), LAMBDA rr :
                  IF rr.err THEN Raise(f, cur, <<>>, ReadDenied, srcs[1])
                  ELSE With(rr.path, LAMBDA s_path :
                  IF PIsDir(f, s_path)
                  THEN R(f, cur, <<Msg("cp: -r not specified; omitting directory",
                                       to_sandbox_posix(s_path, root))>>, "none")
                  ELSE With(IF PIsDir(f, dest_p) THEN Append(dest_p, s_path[Len(s_path)])
                            ELSE dest_p, LAMBDA to :
                       With(shutil_copy2(f, s_path, to), LAMBDA c :
                       IF c.err # "none" THEN R(c.fs, cur, <<>>, "error")
                       ELSE R(c.fs, cur, <<>>, "none")))))))

\* CommandsExecutor.cp
cp(f, root, cur, args) ==
    IF Len(args) < 2 THEN R(f, cur, <<Msg("cp: missing operand", NoTok)>>, "none")
    ELSE LET srcs == SubSeq(args, 1, Len(args) - 1)
             dest == args[Len(args)]
         IN  With(resolve_write(f, root, cur, dest), LAMBDA rw :
             IF rw.err THEN Raise(f, cur, <<>>, WriteDenied, dest)
             ELSE With(rw.path, LAMBDA dest_p :
             IF Len(srcs) > 1
             THEN IF ~PIsDir(f, dest_p)
                  THEN R(f, cur, <<Msg("cp: target is not a directory",
                                       to_sandbox_posix(dest_p, root))>>, "none")
                  ELSE cp_each(f, root, cur, srcs, dest_p)
             ELSE With(resolve_read(f, root, cur, srcs[1]), LAMBDA rr :
                  IF rr.err THEN Raise(f, cur, <<>>, ReadDenied, srcs[1])
                  ELSE With(rr.path, LAMBDA s_path :
                  IF PIsDir(f, s_path)
                  THEN R(f, cur, <<Msg("cp: -r not specified; omitting directory",
                                       to_sandbox_posix(s_path, root))>>, "none")
                  ELSE With(IF PIsDir(f, dest_p) THEN Append(dest_p, s_path[Len(s_path)])
                            ELSE dest_p, LAMBDA to :
                       With(shutil_copy2(f, s_path, to), LAMBDA c :
                       IF c.err # "none" THEN R(c.fs, cur, <<>>, "error")
                       ELSE R(c.fs, cur, <<>>, "none")))))))

\* the loop of mv over several sources
RECURSIVE mv_each(_, _, _, _, _)
mv_each(f, root, cur, srcs, dest_p) ==
    IF srcs = <<>> THEN R(f, cur, <<>>, "none")
    ELSE LET s == Head(srcs)
         IN  With(resolve_read(f, root, cur, s), LAMBDA rr :
             IF rr.err THEN Raise(f, cur, <<>>, ReadDenied, s)
             ELSE With(shutil_move(f, rr.path, Append(dest_p, rr.path[Len(rr.path)])),
                       LAMBDA m :
                  IF m.err # "none" THEN R(m.fs, cur, <<>>, "error")
                  ELSE mv_each(m.fs, root, cur, Tail(srcs), dest_p)))

\* CommandsExecutor.mv
mv(f, root, cur, args) ==
    IF Len(args) < 2 THEN R(f, cur, <<Msg("mv: missing operand", NoTok)>>, "none")
    ELSE LET srcs == SubSeq(args, 1, Len(args) - 1)
             dest == args[Len(args)]
         IN  With(resolve_write(f, root, cur, dest), LAMBDA rw :
             IF rw.err THEN Raise(f, cur, <<>>, WriteDenied, dest)
             ELSE With(rw.path, LAMBDA dest_p :
             IF Len(srcs) > 1
             THEN IF ~PIsDir(f, dest_p)
                  THEN R(f, cur, <<Msg("mv: destination must be an existing directory",
                                       NoTok)>>, "none")
                  ELSE mv_each(f, root, cur, srcs, dest_p)
             ELSE With(resolve_read(f, root, cur, srcs[1]), LAMBDA rr :
                  IF rr.err THEN Raise(f, cur, <<>>, ReadDenied, srcs[1])
                  ELSE With(rr.path, LAMBDA s_path :
                       With(IF PIsDir(f, dest_p) THEN Append(dest_p, s_path[Len(s_path)])
                            ELSE dest_p, LAMBDA to :
                       With(shutil_move(f, s_path, to), LAMBDA m :
                       IF m.err # "none" THEN R(m.fs, cur, <<>>, "error")
                       ELSE R(m.fs, cur, <<>>, "none")))))))

\* int(mode_str, 8): -1 stands for ValueError
OctalValue(name) ==
    CASE name = "777" -> 511
      [] name = "644" -> 420
      [] name = "600" -> 384
      [] OTHER -> -1

\* CommandsExecutor.chmod
chmod(f, root, cur, args) ==
    IF Len(args) < 2 THEN R(f, cur, <<Msg("chmod: missing operand", NoTok)>>, "none")
    ELSE LET mode_str == args[1]
             path == args[2]
             mode == IF mode_str.abs \/ Len(mode_str.parts) # 1 THEN -1
                     ELSE OctalValue(mode_str.parts[1])
         IN  With(resolve_write(f, root, cur, path), LAMBDA rw :
             IF rw.err THEN Raise(f, cur, <<>>, WriteDenied, path)
             ELSE IF mode = -1 THEN R(f, cur, <<Msg("chmod: invalid mode", NoTok)>>, "none")
             ELSE With(os_chmod(f, rw.path, mode), LAMBDA c :
             IF c.err # "none"
             THEN R(f, cur, <<Msg("chmod: failed to change permissions",
                                  to_sandbox_posix(rw.path, root))>>, "none")
             ELSE R(c.fs, cur, <<>>, "none")))

\* ------------------------------------------------------------ the engine
\* The path tokens and argument lists the lines are drawn from.
\* ------------------------------------------------------------ glob expansion
\* A wildcard token has a component that is a pattern.  Every file name of the
\* model is one character, so "?" matches each of them, and no name is hidden
\* (starts with a dot); the recursive pattern "**" is not among the tokens.
MagicComps == {"*", "?", "[ab]"}

\* fnmatch of one name against one component of a pattern
fnmatch(name, pat) ==
    CASE pat = "*" -> TRUE
      [] pat = "?" -> TRUE
      [] pat = "[ab]" -> name \in {"a", "b"}
      [] OTHER -> name = pat

\* any(ch in a for ch in ("*", "?", "[")) / glob.has_magic
has_magic(parts) == \E i \in DOMAIN parts : parts[i] \in MagicComps

\* glob._glob1: the names os.scandir(dirname) lists that match the pattern
\* (with dironly those that are directories, links followed); nothing when
\* the directory cannot be listed
glob1(f, dirname, pattern, dironly) ==
    With(Stat(f, dirname), LAMBDA w :
        IF ~(w.ok /\ IsDir(f, w.p)) THEN {}
        ELSE {q[Len(q)] : q \in {q \in DOMAIN f :
                 /\ q # <<>> /\ Parent(q) = w.p
                 /\ dironly => PIsDir(f, q)
                 /\ fnmatch(q[Len(q)], pattern)}})

\* glob._glob0: a component without wildcard is kept when os.path.lexists
glob0(f, dirname, basename) ==
    IF LStat(f, Append(dirname, basename)).ok THEN {basename} ELSE {}

\* glob._iglob of a pattern with a wildcard: the matches, as the paths glob
\* returns them (the pattern with each wildcard component replaced)
RECURSIVE iglob(_, _, _)
iglob(f, pathname, dironly) ==
    LET dirname == Parent(pathname)
        basename == pathname[Len(pathname)]
    IN  UNION {{Append(d, n) : n \in (IF basename \in MagicComps
                                      THEN glob1(f, d, basename, dironly)
                                      ELSE glob0(f, d, basename))} :
               d \in (IF has_magic(dirname) THEN iglob(f, dirname, TRUE) ELSE {dirname})}

\* the order of str on the names (their first characters differ)
NameOrder == <<"..", "a", "b", "f", "h", "l", "o", "p", "s", "x">>
NameRank(n) == CHOOSE i \in DOMAIN NameOrder : NameOrder[i] = n

\* m1 < m2 for two matches as strings
RECURSIVE PathLess(_, _)
PathLess(p, q) ==
    IF p = <<>> THEN q # <<>>
    ELSE IF q = <<>> THEN FALSE
    ELSE IF Head(p) = Head(q) THEN PathLess(Tail(p), Tail(q))
    ELSE NameRank(Head(p)) < NameRank(Head(q))

\* sorted(matches)
RECURSIVE sorted(_)
sorted(S) ==
    IF S = {} THEN <<>>
    ELSE With(CHOOSE x \in S : \A y \in S \ {x} : PathLess(x, y), LAMBDA m :
         <<m>> \o sorted(S \ {m}))

\* the pattern tried against the root first, against the cursor only after
glob_matches_root_first(f, a, cur, root) ==
    With(iglob(f, Join(root, a), FALSE), LAMBDA m2 :
        IF m2 # {} THEN m2 ELSE iglob(f, Join(cur, a), FALSE))

\* expand_args_with_glob, the matches of one token: relative to cwd, and
\* relative to sandbox_root if there are none
glob_matches(f, a, cur, root) ==
    With(iglob(f, Join(cur, a), FALSE), LAMBDA m1 :
        IF m1 # {} THEN m1 ELSE iglob(f, Join(root, a), FALSE))

\* expand_args_with_glob, one token of the loop: str(Path(m).resolve()) for
\* the sorted matches, or the token itself
expand_token(f, a, cur, root) ==
    IF ~has_magic(a.parts) THEN <<a>>
    ELSE With(glob_matches(f, a, cur, root), LAMBDA matches :
         IF matches = {} THEN <<a>>
         ELSE With(sorted(matches), LAMBDA ms :
              [i \in DOMAIN ms |-> AbsTok(Resolve(f, ms[i]))]))

\* utils.expand_args_with_glob
RECURSIVE expand_args_with_glob(_, _, _, _)
expand_args_with_glob(f, args, cur, root) ==
    IF args = <<>> THEN <<>>
    ELSE expand_token(f, Head(args), cur, root)
         \o expand_args_with_glob(f, Tail(args), cur, root)

\* ------------------------------------------------------------------- find
\* names in the order of str
RECURSIVE SortNames(_)
SortNames(S) ==
    IF S = {} THEN <<>>
    ELSE With(CHOOSE x \in S : \A y \in S : NameRank(x) <= NameRank(y), LAMBDA m :
         <<m>> \o SortNames(S \ {m}))

\* CommandsExecutor._match: fnmatch.fnmatch(name, pattern) with the pattern
\* argument as the string it is (a path with "/" matches no name)
match(name, pattern) ==
    pattern = <<>> \/ (~pattern[1].abs /\ Len(pattern[1].parts) = 1
                         /\ fnmatch(name, pattern[1].parts[1]))

\* the lines find prints for the names of one directory
RECURSIVE find_names(_, _, _, _)
find_names(top, names, pattern, root) ==
    IF names = <<>> THEN <<>>
    ELSE (IF match(Head(names), pattern)
          THEN <<Msg("find", to_sandbox_posix(Append(top, Head(names)), root))>>
          ELSE <<>>) \o find_names(top, Tail(names), pattern, root)

\* the loop of find over os.walk(start_path): top down, for each directory
\* its files, then its directories; links to directories are listed and not
\* entered.  os.walk gives the names of a directory in the order os.scandir
\* lists them, which is the file system's; here they are sorted.
RECURSIVE find_walk(_, _, _, _)
RECURSIVE find_below(_, _, _, _, _)
find_walk(f, top, pattern, root) ==
    IF ~IsDir(f, top) THEN <<>>
    ELSE With({q \in DOMAIN f : q # <<>> /\ Parent(q) = top}, LAMBDA kids :
         With(SortNames({q[Len(q)] : q \in {k \in kids : PIsDir(f, k)}}), LAMBDA dirs :
         With(SortNames({q[Len(q)] : q \in {k \in kids : ~PIsDir(f, k)}}), LAMBDA files :
              find_names(top, files \o dirs, pattern, root)
              \o find_below(f, top, dirs, pattern, root))))
find_below(f, top, dirs, pattern, root) ==
    IF dirs = <<>> THEN <<>>
    ELSE (IF IsLink(f, Append(top, Head(dirs))) THEN <<>>
          ELSE find_walk(f, Append(top, Head(dirs)), pattern, root))
         \o find_below(f, top, Tail(dirs), pattern, root)

DashName == Tok(<<"-name">>)

\* CommandsExecutor.find
find(f, root, cur, args) ==
    LET byname == args # <<>> /\ args[1] = DashName /\ Len(args) >= 2
        start == IF args = <<>> \/ byname THEN Tok(<<>>) ELSE args[1]
        pattern == IF byname THEN <<args[2]>>
                   ELSE IF Len(args) >= 3 /\ args[2] = DashName THEN <<args[3]>>
                   ELSE <<>>
    IN  With(resolve_read(f, root, cur, start), LAMBDA rr :
        IF rr.err THEN Raise(f, cur, <<>>, ReadDenied, start)
        ELSE R(f, cur, find_walk(f, rr.path, pattern, root), "none"))

\* -------------------------------------------------------------------- cat
\* a line of output that is the text of a line of a file (no words: an
\* empty line)
TextLine(words) == [k |-> "text", t |-> NoTok, words |-> words]

\* print(target.read_text()): the lines of the file, and the line terminator
\* print adds after the text
print_text(data) == [i \in DOMAIN data |-> TextLine(data[i])] \o <<TextLine(<<>>)>>

\* the loop of cat over its arguments
RECURSIVE cat_each(_, _, _, _)
cat_each(f, root, cur, args) ==
    IF args = <<>> THEN <<>>
    ELSE With(resolve_read(f, root, cur, Head(args)), LAMBDA rr :
         (IF rr.err THEN <<Msg(ReadDenied, Head(args))>>
          ELSE IF ~PIsFile(f, rr.path)
          THEN <<Msg("cat: No such file", to_sandbox_posix(rr.path, root))>>
          ELSE print_text(f[rr.path].data))
         \o cat_each(f, root, cur, Tail(args)))

\* CommandsExecutor.cat
cat(f, root, cur, args) ==
    IF args = <<>> THEN R(f, cur, <<Msg("cat: missing file operand", NoTok)>>, "none")
    ELSE R(f, cur, cat_each(f, root, cur, args), "none")

\* --------------------------------------------------------- the engine's lines
RelToks == {Tok(p) : p \in {<<>>, <<"a">>, <<"b">>, <<"a", "b">>, <<"..">>, <<"l">>,
                            <<"a", "..">>}}
AbsToks == {AbsTok(<<"h", "o", "f">>)}
Toks == RelToks \cup AbsToks
SrcToks == {Tok(p) : p \in {<<"a">>, <<"b">>, <<"..">>, <<"l">>}}
DestToks == SrcToks \cup {Tok(<<>>), Tok(<<"a", "b">>)}
Word == Tok(<<"x">>)

CdArgs == {<<>>} \cup {<<t>> : t \in Toks} \cup {<<AbsTok(<<>>)>>}
MkdirArgs == {<<>>, <<Tok(<<"-p">>)>>} \cup {<<t>> : t \in Toks}
                \cup {<<Tok(<<"-p">>), t>> : t \in SrcToks \cup {Tok(<<"a", "b">>)}}
RmArgs == {<<>>, <<Tok(<<"-r">>)>>} \cup {<<t>> : t \in Toks}
                \cup {<<Tok(<<"-r">>), t>> : t \in SrcToks \cup {Tok(<<>>)}}
TouchArgs == {<<>>} \cup {<<t>> : t \in Toks}
                \cup {<<AbsTok(<<"h", "o", "f">>), Tok(<<"a">>)>>}
WildToks == {Tok(<<"*">>), Tok(<<"..", "*">>), AbsTok(<<"h", "o", "*">>)}
EchoArgs == {<<>>, <<Word>>, <<Word, GT>>}
                \cup {<<Word, GT, t>> : t \in Toks} \cup {<<Word, GTGT, t>> : t \in SrcToks}
                \cup {<<t>> : t \in WildToks}
PairArgs == {<<Tok(<<"a">>)>>} \cup {<<s, d>> : s \in SrcToks, d \in DestToks}
                \cup {<<Tok(<<"a">>), s, Tok(<<"b">>)>> : s \in {Tok(<<"b">>), Tok(<<"..">>)}}
                \cup {<<Tok(<<"..">>), Tok(<<"a">>), Tok(<<"b">>)>>}
ChmodArgs == {<<Tok(<<"777">>)>>, <<Tok(<<"abc">>), Tok(<<"a">>)>>}
                \cup {<<Tok(<<"777">>), t>> : t \in SrcToks \cup AbsToks}

FindPatterns == {Tok(<<"*">>), Tok(<<"[ab]">>), Tok(<<"a">>)}
FindArgs == {<<>>, <<Tok(<<"a">>)>>}
                \cup {<<Tok(<<>>), DashName, p>> : p \in FindPatterns}
                \cup {<<DashName, p>> : p \in FindPatterns}

CatArgs == {<<>>} \cup {<<t>> : t \in SrcToks} \cup {<<Tok(<<"a">>), Tok(<<"..">>)>>}

\* a line as typed: the command name and the arguments before any expansion
Line(cmd, args) == [cmd |-> cmd, args |-> args]

\* the log file before the first record
NoRecord == [n |-> 0, line |-> Line("", <<>>), cwd |-> <<>>]

\* log_info whose handler lets the error of a failing write out
log_info_raising(h, a, msg, c) ==
    IF h = "ok" THEN [audit |-> [n |-> a.n + 1, line |-> msg, cwd |-> c], exc |-> "none"]
    ELSE [audit |-> a, exc |-> "error"]

\* utils.log_info(f"CMD: {line} | cwd: {self.sandbox.cwd}"): the root logger
\* has the one FileHandler of configure_file_logging; its emit appends one
\* record, and an error of the write is kept inside logging
\* (Handler.handleError), so nothing is raised
log_info(h, a, msg, c) ==
    IF h = "ok" THEN [audit |-> [n |-> a.n + 1, line |-> msg, cwd |-> c], exc |-> "none"]
    ELSE [audit |-> a, exc |-> "none"]

\* SandboxManager.__init__ and the tree the session starts in: the sandbox
\* directory, a directory and a file outside it, and a symbolic link inside
\* it (to the directory outside, to the file outside, or to a name inside)
HostTree ==
    (<<>> :> Dir(DirMode, 0)) @@ (repo_root :> Dir(DirMode, 0))
    @@ (Append(repo_root, base_dir) :> Dir(DirMode, 0))
    @@ (<<"h", "o">> :> Dir(DirMode, 0)) @@ (<<"h", "o", "f">> :> File(<<>>, FileMode, 0))

LinkTargets == {<<"h", "o">>, <<"h", "o", "f">>, <<"h", "s", "a">>}

EngineInit ==
    /\ sandbox_root = Resolve(HostTree, Append(repo_root, base_dir))
    /\ cwd = sandbox_root
    /\ \E t \in LinkTargets : fs = Put(HostTree, <<"h", "s", "l">>, Link(t))
    /\ fs0 = fs
    /\ engine = "running"
    /\ ncmds = 0
    /\ last = ""
    /\ out = <<>>
    /\ line = Line("", <<>>)
    /\ audit = NoRecord

\* TerminalCLI.execute_line around a handler's result r, and the loop of
\* TerminalCLI.run that an exception other than SandboxError leaves
\* the loop of run reads another line
Reading == engine = "running" /\ ncmds < MaxCmds

execute_line(cmd, args, r) ==
    /\ ncmds' = ncmds + 1
    /\ \A q \in DOMAIN r.fs : Len(q) <= MaxDepth /\ Len(r.fs[q].data) <= MaxLines
    /\ \E lg \in {log_info(handler, audit, Line(cmd, args), cwd)} :
          /\ audit' = lg.audit
          /\ IF lg.exc # "none"
             THEN /\ engine' = "crashed"
                  /\ out' = <<>>
                  /\ UNCHANGED <<fs, cwd>>
             ELSE /\ fs' = r.fs
                  /\ cwd' = r.cwd
                  /\ out' = IF r.exc = "SandboxError" THEN Append(r.out, r.se) ELSE r.out
                  /\ engine' = CASE r.exc = "error" -> "crashed"
                                  [] r.exc = "EOFError" -> "terminated"
                                  [] OTHER -> "running"
    /\ last' = cmd
    /\ line' = Line(cmd, args)
    /\ UNCHANGED <<fs0, sandbox_root, handler, probe, sess>>
    /\ UNCHANGED bvars

\* args = expand_args_with_glob(raw_args, self.sandbox.cwd, self.sandbox.sandbox_root)
Expanded(raw_args) == expand_args_with_glob(fs, raw_args, cwd, sandbox_root)

Cd ==
    Reading /\ \E args \in CdArgs : \E r \in {cd(fs, sandbox_root, cwd, Expanded(args))} :
        execute_line("cd", args, r)
Pwd ==
    Reading /\ \E r \in {pwd(fs, sandbox_root, cwd, <<>>)} : execute_line("pwd", <<>>, r)
Mkdir ==
    Reading /\ \E args \in MkdirArgs : \E r \in {mkdir(fs, sandbox_root, cwd, Expanded(args))} :
        execute_line("mkdir", args, r)
Rm ==
    Reading /\ \E args \in RmArgs : \E r \in {rm(fs, sandbox_root, cwd, Expanded(args))} :
        execute_line("rm", args, r)
Touch ==
    Reading /\ \E args \in TouchArgs : \E r \in {touch(fs, sandbox_root, cwd, Expanded(args))} :
        execute_line("touch", args, r)
Echo ==
    Reading /\ \E args \in EchoArgs : \E r \in {echo(fs, sandbox_root, cwd, Expanded(args))} :
        execute_line("echo", args, r)
Cp ==
    Reading /\ \E args \in PairArgs : \E r \in {cp(fs, sandbox_root, cwd, Expanded(args))} :
        execute_line("cp", args, r)
Mv ==
    Reading /\ \E args \in PairArgs : \E r \in {mv(fs, sandbox_root, cwd, Expanded(args))} :
        execute_line("mv", args, r)
Chmod ==
    Reading /\ \E args \in ChmodArgs : \E r \in {chmod(fs, sandbox_root, cwd, Expanded(args))} :
        execute_line("chmod", args, r)

Cat ==
    Reading /\ \E args \in CatArgs : \E r \in {cat(fs, sandbox_root, cwd, Expanded(args))} :
        execute_line("cat", args, r)
Find ==
    Reading /\ \E args \in FindArgs : \E r \in {find(fs, sandbox_root, cwd, Expanded(args))} :
        execute_line("find", args, r)

\* a command name outside the mapping
Unknown ==
    /\ Reading
    /\ execute_line("frob", <<>>,
                    R(fs, cwd, <<Msg("Unknown command", Tok(<<"frob">>))>>, "none"))

\* a line shlex.split rejects (an unbalanced quote): the message is printed
\* and execute_line returns before any dispatch
ParseError ==
    /\ Reading
    /\ execute_line("'", <<>>, R(fs, cwd, <<Msg("Parse error", NoTok)>>, "none"))

\* exit / quit: EOFError leaves the loop of run
Exit ==
    /\ Reading
    /\ \E cmd \in {"exit", "quit"} : execute_line(cmd, <<>>, R(fs, cwd, <<>>, "EOFError"))

\* a line of blanks: execute_line returns at once, nothing is logged
Blank ==
    /\ Reading
    /\ ncmds' = ncmds + 1
    /\ last' = ""
    /\ line' = Line("", <<>>)
    /\ out' = <<>>
    /\ UNCHANGED <<fs, fs0, sandbox_root, cwd, engine, handler, audit, probe, sess>>
    /\ UNCHANGED bvars

\* ------------------------------------------------- the websocket/pty bridge
\* A JSON value of a resize message: absent, a number, a string (its
\* characters) or null.
JAbsent == [t |-> "absent", n |-> 0, s |-> <<>>]
JNull == [t |-> "null", n |-> 0, s |-> <<>>]
JNum(n) == [t |-> "num", n |-> n, s |-> <<>>]
JStr(chars) == [t |-> "str", n |-> 0, s |-> chars]

Digits == {"0", "1", "2", "3", "4", "5", "6", "7", "8", "9"}
DigitVal(c) ==
    CASE c = "0" -> 0 [] c = "1" -> 1 [] c = "2" -> 2 [] c = "3" -> 3 [] c = "4" -> 4
      [] c = "5" -> 5 [] c = "6" -> 6 [] c = "7" -> 7 [] c = "8" -> 8 [] c = "9" -> 9

RECURSIVE DecimalValue(_)
DecimalValue(chars) ==
    IF chars = <<>> THEN 0
    ELSE 10 * DecimalValue(SubSeq(chars, 1, Len(chars) - 1)) + DigitVal(chars[Len(chars)])

\* int(v): [ok, v]; ok is FALSE when int raises (ValueError, TypeError)
py_int(v) ==
    CASE v.t = "num" -> [ok |-> TRUE, v |-> v.n]
      [] v.t = "str" -> IF v.s # <<>> /\ \A i \in DOMAIN v.s : v.s[i] \in Digits
                        THEN [ok |-> TRUE, v |-> DecimalValue(v.s)]
                        ELSE [ok |-> FALSE, v |-> 0]
      [] OTHER -> [ok |-> FALSE, v |-> 0]

\* j.get(key, default)
dict_get(v, default) == IF v.t = "absent" THEN JNum(default) ELSE v

\* struct.pack("H", x) succeeds
UShortMax == 65535
pack_H_ok(x) == 0 <= x /\ x <= UShortMax

\* A text message: whether white space leads it, its first other character
\* (what text.strip() starts with), and the document json.loads gives for it
\* (t = "invalid" when it raises).
NoDoc == [t |-> "invalid", type |-> "", rows |-> JAbsent, cols |-> JAbsent]
Text(sp, first, doc) == [sp |-> sp, first |-> first, doc |-> doc]
ObjText(sp, type, rows, cols) ==
    Text(sp, "{", [t |-> "obj", type |-> type, rows |-> rows, cols |-> cols])
ResizeText(rows, cols) == ObjText(FALSE, "resize", rows, cols)

KeysText == Text(FALSE, "l", NoDoc)                 \* keystrokes such as "ls\n"
JunkText == Text(FALSE, "{", NoDoc)                 \* "{oops"
ListText == Text(FALSE, "[", [t |-> "list", type |-> "", rows |-> JAbsent, cols |-> JAbsent])

ResizeTexts ==
    {ResizeText(JNum(30), JNum(100)), ResizeText(JAbsent, JAbsent),
     ResizeText(JStr(<<"4", "0">>), JNum(100)), ResizeText(JStr(<<"a">>), JNum(80)),
     ResizeText(JNum(30), JNull), ResizeText(JNum(70000), JNum(80)),
     ResizeText(JNum(-1), JNum(80)), ObjText(TRUE, "resize", JNum(50), JNum(132))}

Texts == {KeysText, JunkText, ListText, ObjText(TRUE, "ping", JAbsent, JAbsent)}
            \cup ResizeTexts

\* An ASGI message; seq is its place among the messages the remote caller
\* sent (0: none)
TextMsg(t) == [type |-> "websocket.receive", text |-> <<t>>, bytes |-> <<>>, seq |-> 0]
BytesMsg(b) == [type |-> "websocket.receive", text |-> <<>>, bytes |-> <<b>>, seq |-> 0]
DisconnectMsg == [type |-> "websocket.disconnect", text |-> <<>>, bytes |-> <<>>, seq |-> 0]

ClientMsgs == {TextMsg(t) : t \in Texts} \cup {BytesMsg(<<3>>)}

IsResize(text) == text.doc.t = "obj" /\ text.doc.type = "resize"

\* The receive loop's handling of one text message (web.py 80-107):
\* "resize" (window size set), "skip" (continue without any effect) or
\* "write" (the text goes to the master descriptor)
strip_first(text) == text.first
handle_text(text) ==
    IF strip_first(text) = "{"
    THEN IF IsResize(text)
         THEN LET rows == py_int(dict_get(text.doc.rows, 24))
                  cols == py_int(dict_get(text.doc.cols, 80))
              IN  IF ~rows.ok \/ ~cols.ok THEN [act |-> "write", rows |-> 0, cols |-> 0]
                  ELSE IF ~pack_H_ok(rows.v) \/ ~pack_H_ok(cols.v)
                  THEN [act |-> "skip", rows |-> 0, cols |-> 0]
                  ELSE [act |-> "resize", rows |-> rows.v, cols |-> cols.v]
         ELSE [act |-> "write", rows |-> 0, cols |-> 0]
    ELSE [act |-> "write", rows |-> 0, cols |-> 0]

\* the stripped text s written in place of text
Payload_stripped(m) ==
    IF m.text # <<>>
    THEN [enc |-> "utf-8", text |-> <<[m.text[1] EXCEPT !.sp = FALSE]>>, bytes |-> <<>>,
          seq |-> m.seq]
    ELSE [enc |-> "raw", text |-> <<>>, bytes |-> m.bytes, seq |-> m.seq]

\* text.encode() / the bytes of a binary message, as os.write gets them
\* (seq: the message they came with)
Payload(m) ==
    IF m.text # <<>>
    THEN [enc |-> "utf-8", text |-> m.text, bytes |-> <<>>, seq |-> m.seq]
    ELSE [enc |-> "raw", text |-> <<>>, bytes |-> m.bytes, seq |-> m.seq]

SendTask(data) == [kind |-> "send", data |-> data]
CloseTask == [kind |-> "close", data |-> 0]

\* _read_pty that returns on a zero-length read without closing the websocket
on_eof_ignored(ts) == ts

\* _read_pty on a zero-length read: asyncio.create_task(ws.close())
on_eof(ts) == Append(ts, CloseTask)

\* _read_pty whose newest send runs first
on_data_lifo(ts, data) == <<SendTask(data)>> \o ts

\* _read_pty on data: asyncio.create_task(_send_bytes(data))
on_data(ts, data) == Append(ts, SendTask(data))

\* ------------------------------------- several sessions in one event loop
\* Each connection runs websocket_pty as a task of the one event loop. The
\* kernel gives a new descriptor the lowest free number and a new child a
\* process id that stays taken until the child is waited for, which the
\* handler never does.
MaxSessions == 2
Sessions == 1..MaxSessions
Fds == 1..MaxSessions

NoSession == [pc |-> "accept", fd |-> 0, pid |-> 0, registered |-> FALSE, queued |-> FALSE,
              ntasks |-> 0]
NoSessions == [of |-> [s \in Sessions |-> NoSession],
               fds |-> [n \in Fds |-> 0],
               procs |-> <<>>,
               calls |-> <<>>]

\* a system call of session s on the descriptor number (or process id) n,
\* with the session that owns n at that moment in the table (0: none)
Call(s, name, n, table) ==
    [s |-> s, call |-> name, on |-> n, owner |-> IF n \in DOMAIN table THEN table[n] ELSE 0]

\* remove_reader that leaves a callback already queued to run
remove_reader_keeps_queued(t) == [t EXCEPT !.registered = FALSE]

\* loop.remove_reader(master_fd): the registration is dropped and its handle
\* cancelled, so a callback already queued is skipped by the loop
remove_reader(t) == [t EXCEPT !.registered = FALSE, !.queued = FALSE]

\* pty.fork() and loop.add_reader(master_fd, _read_pty) in session s
SessFork(s) ==
    /\ sess.of[s].pc = "accept"
    /\ \E n \in Fds :
          /\ sess.fds[n] = 0 /\ \A m \in Fds : m < n => sess.fds[m] # 0
          /\ sess' = [sess EXCEPT
                        !.of[s] = [@ EXCEPT !.pc = "loop", !.fd = n,
                                            !.pid = Len(sess.procs) + 1,
                                            !.registered = TRUE],
                        !.fds[n] = s,
                        !.procs = Append(@, s),
                        !.calls = <<>>]
    /\ UNCHANGED <<fsvars, bvars, probe>>

\* the selector reports the descriptor of session s readable: the handle of
\* _read_pty is queued
SessSelect(s) ==
    /\ sess.of[s].registered /\ ~sess.of[s].queued
    /\ sess' = [sess EXCEPT !.of[s].queued = TRUE, !.calls = <<>>]
    /\ UNCHANGED <<fsvars, bvars, probe>>

\* the loop runs the queued _read_pty of session s: os.read(master_fd, 4096)
\* and a task for the websocket
SessReadPty(s) ==
    /\ sess.of[s].queued
    /\ sess.of[s].ntasks < MaxTasks
    /\ sess' = [sess EXCEPT
                  !.of[s] = [@ EXCEPT !.queued = FALSE, !.ntasks = @ + 1],
                  !.calls = <<Call(s, "read", sess.of[s].fd, sess.fds)>>]
    /\ UNCHANGED <<fsvars, bvars, probe>>

\* the loop runs a task of session s (_send_bytes or ws.close): it uses the
\* websocket alone
SessRunTask(s) ==
    /\ sess.of[s].ntasks > 0
    /\ sess' = [sess EXCEPT !.of[s].ntasks = @ - 1, !.calls = <<>>]
    /\ UNCHANGED <<fsvars, bvars, probe>>

\* ws.receive() of session s returns input or a resize message: os.write or
\* fcntl.ioctl on master_fd
SessReceive(s) ==
    /\ sess.of[s].pc = "loop"
    /\ \E name \in {"write", "ioctl"} :
          sess' = [sess EXCEPT !.calls = <<Call(s, name, sess.of[s].fd, sess.fds)>>]
    /\ UNCHANGED <<fsvars, bvars, probe>>

\* ws.receive() of session s returns websocket.disconnect (or raises): the
\* finally block runs remove_reader, os.close and os.kill and the handler ends
SessFinally(s) ==
    /\ sess.of[s].pc = "loop"
    /\ sess' = [sess EXCEPT
                  !.of[s] = [remove_reader(@) EXCEPT !.pc = "done"],
                  !.fds[sess.of[s].fd] = 0,
                  !.calls = <<Call(s, "close", sess.of[s].fd, sess.fds),
                             Call(s, "kill", sess.of[s].pid, sess.procs)>>]
    /\ UNCHANGED <<fsvars, bvars, probe>>

NextSessions ==
    \E s \in Sessions :
        SessFork(s) \/ SessSelect(s) \/ SessReadPty(s) \/ SessRunTask(s)
            \/ SessReceive(s) \/ SessFinally(s)

\* a cleanup that runs once for the disconnect and once more for the EOF
finally_twice(tl, okRemove, okClose, okKill) ==
    tl \o <<[step |-> "remove_reader", ok |-> okRemove],
            [step |-> "close", ok |-> okClose],
            [step |-> "kill", ok |-> okKill],
            [step |-> "remove_reader", ok |-> FALSE],
            [step |-> "close", ok |-> FALSE],
            [step |-> "kill", ok |-> okKill]>>

\* a cleanup with the three calls in one try: the first failure ends it
finally_one_try(tl, okRemove, okClose, okKill) ==
    tl \o <<[step |-> "remove_reader", ok |-> okRemove]>>
       \o (IF okRemove THEN <<[step |-> "close", ok |-> okClose]>> ELSE <<>>)
       \o (IF okRemove /\ okClose THEN <<[step |-> "kill", ok |-> okKill]>> ELSE <<>>)

\* the finally block of websocket_pty: three calls, each in a try of its own
finally_block(tl, okRemove, okClose, okKill) ==
    tl \o <<[step |-> "remove_reader", ok |-> okRemove],
            [step |-> "close", ok |-> okClose],
            [step |-> "kill", ok |-> okKill]>>

Steps(tl, step) == {i \in DOMAIN tl : tl[i].step = step}

BridgeInit ==
    /\ sess = NoSessions
    /\ pc = "fork"
    /\ wsstate = "open"
    /\ closecode = 0
    /\ inbox = <<>>
    /\ nmsgs = 0
    /\ child = "none"
    /\ image = "none"
    /\ master_fd = "none"
    /\ reader = FALSE
    /\ ptyout = <<>>
    /\ nout = 0
    /\ tasks = <<>>
    /\ sent = <<>>
    /\ written = <<>>
    /\ winsize = [rows |-> 0, cols |-> 0, seq |-> 0]
    /\ tlog = <<>>
    /\ nsig = 0
    /\ eofSeen = FALSE
    /\ errSeen = FALSE

\* pty.fork() outside any try: its failure is not noticed and the handler goes
\* on to add_reader and the receive loop without a child
Fork_unguarded ==
    /\ pc = "fork"
    /\ pc' = "loop"
    /\ reader' = TRUE
    /\ \/ child' = "running" /\ master_fd' = "open" /\ image' \in {"engine", "server"}
       \/ UNCHANGED <<child, master_fd, image>>
    /\ UNCHANGED <<wsstate, closecode, inbox, nmsgs, eofmode, ptyout, nout, tasks, sent,
                   written, winsize, tlog, nsig, eofSeen, errSeen>>
    /\ UNCHANGED <<fsvars, probe, sess>>

\* pty.fork() in websocket_pty: on failure ws.close(code=1011) and return; in
\* the parent, loop.add_reader(master_fd, _read_pty). In the child (pid == 0)
\* os.execvpe either replaces the process image with the engine or raises, and
\* then the exception goes up into the copy of the server the child still is;
\* the parent is told neither.
Fork ==
    /\ pc = "fork"
    /\ \/ /\ pc' = "loop"
          /\ child' = "running"
          /\ image' \in {"engine", "server"}
          /\ master_fd' = "open"
          /\ reader' = TRUE
          /\ UNCHANGED <<wsstate, closecode, inbox>>
       \/ /\ pc' = "done"
          /\ closecode' = IF wsstate = "open" THEN 1011 ELSE closecode
          /\ inbox' = IF wsstate = "open" THEN Append(inbox, DisconnectMsg) ELSE inbox
          /\ wsstate' = "closed"
          /\ UNCHANGED <<child, image, master_fd, reader>>
    /\ UNCHANGED <<nmsgs, eofmode, ptyout, nout, tasks, sent, written, winsize, tlog, nsig,
                   eofSeen, errSeen>>
    /\ UNCHANGED <<fsvars, probe, sess>>

\* the remote caller sends a message
ClientSend ==
    /\ wsstate = "open"
    /\ nmsgs < MaxMsgs
    /\ \E m \in ClientMsgs : inbox' = Append(inbox, [m EXCEPT !.seq = nmsgs + 1])
    /\ nmsgs' = nmsgs + 1
    /\ UNCHANGED <<pc, wsstate, closecode, child, master_fd, reader, eofmode, ptyout, nout,
                   tasks, sent, written, winsize, tlog, nsig, eofSeen, errSeen>>
    /\ UNCHANGED <<image, fsvars, probe, sess>>

\* the remote caller goes away
ClientDisconnect ==
    /\ wsstate = "open"
    /\ wsstate' = "closed"
    /\ inbox' = Append(inbox, DisconnectMsg)
    /\ UNCHANGED <<pc, closecode, nmsgs, child, master_fd, reader, eofmode, ptyout, nout,
                   tasks, sent, written, winsize, tlog, nsig, eofSeen, errSeen>>
    /\ UNCHANGED <<image, fsvars, probe, sess>>

\* the child writes a chunk of output to its terminal
ChildOutput ==
    /\ child = "running"
    /\ nout < MaxOut
    /\ nout' = nout + 1
    /\ ptyout' = Append(ptyout, nout + 1)
    /\ UNCHANGED <<pc, wsstate, closecode, inbox, nmsgs, child, master_fd, reader, eofmode,
                   tasks, sent, written, winsize, tlog, nsig, eofSeen, errSeen>>
    /\ UNCHANGED <<image, fsvars, probe, sess>>

\* the child ends (exit, a crash, or the SIGTERM of the teardown)
ChildExit ==
    /\ child = "running"
    /\ child' = "exited"
    /\ UNCHANGED <<pc, wsstate, closecode, inbox, nmsgs, master_fd, reader, eofmode, ptyout,
                   nout, tasks, sent, written, winsize, tlog, nsig, eofSeen, errSeen>>
    /\ UNCHANGED <<image, fsvars, probe, sess>>

\* _read_pty, called by the event loop while master_fd is readable
ReadPty ==
    /\ reader
    /\ master_fd = "open"
    /\ IF ptyout # <<>>
       THEN /\ Len(tasks) < MaxTasks
            /\ tasks' = on_data(tasks, Head(ptyout))
            /\ ptyout' = Tail(ptyout)
            /\ UNCHANGED <<eofSeen, errSeen>>
       ELSE /\ child = "exited"
            /\ IF eofmode = "zero"
               THEN /\ Len(tasks) < MaxTasks
                    /\ tasks' = on_eof(tasks)
                    /\ eofSeen' = TRUE
                    /\ UNCHANGED <<ptyout, errSeen>>
               ELSE /\ errSeen' = TRUE
                    /\ UNCHANGED <<ptyout, tasks, eofSeen>>
    /\ UNCHANGED <<pc, wsstate, closecode, inbox, nmsgs, child, master_fd, reader, eofmode,
                   nout, sent, written, winsize, tlog, nsig>>
    /\ UNCHANGED <<image, fsvars, probe, sess>>

\* the event loop runs the oldest task: _send_bytes(data) or ws.close(); a
\* send or close on a connection that is closed raises inside the task
RunTask ==
    /\ tasks # <<>>
    /\ tasks' = Tail(tasks)
    /\ LET t == Head(tasks) IN
       IF t.kind = "send"
       THEN /\ sent' = IF wsstate = "open" THEN Append(sent, t.data) ELSE sent
            /\ UNCHANGED <<wsstate, closecode, inbox>>
       ELSE /\ wsstate' = "closed"
            /\ closecode' = IF wsstate = "open" THEN 1000 ELSE closecode
            /\ inbox' = IF wsstate = "open" THEN Append(inbox, DisconnectMsg) ELSE inbox
            /\ UNCHANGED sent
    /\ UNCHANGED <<pc, nmsgs, child, master_fd, reader, eofmode, ptyout, nout, written,
                   winsize, tlog, nsig, eofSeen, errSeen>>
    /\ UNCHANGED <<image, fsvars, probe, sess>>

\* a write that puts the payload ahead of what was written before
os_write_ahead(w, payload, ok) == IF ok THEN <<payload>> \o w ELSE w

\* os.write(master_fd, payload) inside its try: the write fails (and is
\* swallowed) only once the child is gone
os_write(w, payload, ok) == IF ok THEN Append(w, payload) ELSE w

\* one turn of the receive loop of websocket_pty: a message is taken and
\* handled; "websocket.disconnect" breaks the loop and the finally block runs
Receive ==
    /\ pc = "loop"
    /\ inbox # <<>>
    /\ inbox' = Tail(inbox)
    /\ LET msg == Head(inbox) IN
       IF msg.type = "websocket.disconnect"
       THEN /\ \E okRemove, okClose, okKill \in BOOLEAN :
                  /\ tlog' = finally_block(tlog, okRemove, okClose, okKill)
                  /\ nsig' = IF okKill THEN nsig + 1 ELSE nsig
            /\ reader' = FALSE
            /\ master_fd' = "closed"
            /\ pc' = "done"
            /\ UNCHANGED <<written, winsize>>
       ELSE /\ UNCHANGED <<pc, reader, master_fd, tlog, nsig>>
            /\ IF msg.text # <<>> /\ handle_text(msg.text[1]).act # "write"
               THEN LET h == handle_text(msg.text[1]) IN
                    /\ winsize' = IF h.act = "resize"
                                  THEN [rows |-> h.rows, cols |-> h.cols, seq |-> msg.seq]
                                  ELSE winsize
                    /\ UNCHANGED written
               ELSE /\ \E ok \in {TRUE, child = "running"} :
                          written' = os_write(written, Payload(msg), ok)
                    /\ UNCHANGED winsize
    /\ UNCHANGED <<wsstate, closecode, nmsgs, child, eofmode, ptyout, nout, tasks, sent,
                   eofSeen, errSeen>>
    /\ UNCHANGED <<image, fsvars, probe, sess>>

\* ------------------------------------------------ the resolver on its own
\* resolve_read and resolve_write applied to one token, in a tree and at a
\* cursor a session can be in
NoProbe == [done |-> FALSE, tok |-> NoTok,
            rd |-> [err |-> FALSE, path |-> <<>>], wr |-> [err |-> FALSE, path |-> <<>>]]

ProbeComps == {"a", "l", "..", "h", "s", "o", "f"}
ProbeParts == UNION {[1..k -> ProbeComps] : k \in 0..MaxTok}
ProbeToks == {Tok(p) : p \in ProbeParts} \cup {AbsTok(p) : p \in ProbeParts}

ProbeKinds == {"none", "file", "dir"}
ProbeLinkTargets == LinkTargets \cup {<<"h">>}

\* the trees: the link, and under the sandbox root a (nothing, a file or a
\* directory) and a/b
ProbeTree(lt, ka, kab) ==
    LET t1 == Put(HostTree, <<"h", "s", "l">>, Link(lt))
        t2 == IF ka = "file" THEN Put(t1, <<"h", "s", "a">>, File(<<>>, FileMode, 1))
              ELSE IF ka = "dir" THEN Put(t1, <<"h", "s", "a">>, Dir(DirMode, 1))
              ELSE t1
    IN  IF ka = "dir" /\ kab = "file"
        THEN Put(t2, <<"h", "s", "a", "b">>, File(<<>>, FileMode, 1))
        ELSE IF ka = "dir" /\ kab = "dir"
        THEN Put(t2, <<"h", "s", "a", "b">>, Dir(DirMode, 1))
        ELSE t2

\* the cursors: the root, and directories a session entered (they may have
\* been removed or replaced since)
ProbeCursors == {<<"h", "s">>, <<"h", "s", "a">>, <<"h", "s", "a", "b">>}

ProbeInit ==
    /\ BridgeInit
    /\ eofmode = "EIO"
    /\ sandbox_root = Resolve(HostTree, Append(repo_root, base_dir))
    /\ \E lt \in ProbeLinkTargets, ka \in ProbeKinds, kab \in ProbeKinds :
          fs = ProbeTree(lt, ka, kab)
    /\ fs0 = fs
    /\ cwd \in ProbeCursors
    /\ engine = "running"
    /\ ncmds = 0
    /\ last = ""
    /\ out = <<>>
    /\ line = Line("", <<>>)
    /\ handler = "ok"
    /\ audit = NoRecord
    /\ probe = NoProbe

ResolveToken ==
    /\ ~probe.done
    /\ \E t \in ProbeToks :
          probe' = [done |-> TRUE, tok |-> t,
                    rd |-> resolve_read(fs, sandbox_root, cwd, t),
                    wr |-> resolve_write(fs, sandbox_root, cwd, t)]
    /\ UNCHANGED <<fsvars, bvars, sess>>

\* the argument lists given to the glob expansion: one wildcard token (a
\* relative one of up to MaxTok components, or an absolute one under /h, /h/s
\* or /h/o), between two plain tokens or after another wildcard token
GlobComps == MagicComps \cup {"a", "..", "o"}
GlobParts(n) == {p \in UNION {[1..k -> GlobComps] : k \in 1..n} : has_magic(p)}
GlobPrefixes == {<<"h">>, <<"h", "s">>, <<"h", "o">>}
GlobToks == {Tok(p) : p \in GlobParts(MaxTok)}
                \cup {AbsTok(pre \o p) : pre \in GlobPrefixes, p \in GlobParts(MaxTok - 2)}
GlobArgs == {<<Word, t, Tok(<<"a">>)>> : t \in GlobToks}
                \cup {<<Tok(<<"*">>), t>> : t \in GlobToks}

\* execute_line expands the arguments of a line
ExpandArgs ==
    /\ ~probe.done
    /\ \E args \in GlobArgs :
          probe' = [done |-> TRUE, args |-> args,
                    expanded |-> expand_args_with_glob(fs, args, cwd, sandbox_root)]
    /\ UNCHANGED <<fsvars, bvars, sess>>

\* ------------------------------------------------------------------ tail
\* A file as tail reads it: the lengths in bytes of its lines, terminators not
\* counted, and whether the last line ends with a terminator.
blocksize == 1024

\* the bytes of the first k lines, each with a terminator
RECURSIVE SumBelow(_, _)
SumBelow(lens, k) == IF k = 0 THEN 0 ELSE lens[k] + 1 + SumBelow(lens, k - 1)

\* the offset of the first byte of line i, and of the byte after its last
LineStart(lens, i) == SumBelow(lens, i - 1)
LineEnd(lens, i) == SumBelow(lens, i - 1) + lens[i]

\* f.seek(0, os.SEEK_END); f.tell()
FileSize(lens, term) == SumBelow(lens, Len(lens)) - (IF term \/ lens = <<>> THEN 0 ELSE 1)

\* data.count(b'\n') for data = the bytes from offset off to the end
CountNewlines(lens, term, off) ==
    Cardinality({i \in DOMAIN lens : (i < Len(lens) \/ term) /\ LineEnd(lens, i) >= off})

\* the while loop of tail: blocks are read from the end towards the start
\* until more than n terminators were seen or the file is exhausted; the
\* value is the offset data starts at
RECURSIVE read_back(_, _, _, _, _)
read_back(lens, term, n, filesize, lines_found) ==
    IF filesize > 0 /\ lines_found <= n
    THEN LET read_size == IF blocksize < filesize THEN blocksize ELSE filesize
         IN  read_back(lens, term, n, filesize - read_size,
                       CountNewlines(lens, term, filesize - read_size))
    ELSE filesize

\* data.splitlines() for data = the bytes from off to the end: one item for
\* each line that ends in data, the line it comes from and how many of its
\* bytes it holds
RECURSIVE splitlines(_, _, _, _, _)
splitlines(lens, term, size, off, i) ==
    IF i > Len(lens) THEN <<>>
    ELSE LET inData == IF i < Len(lens) \/ term THEN LineEnd(lens, i) >= off /\ off < size
                       ELSE LineEnd(lens, i) > off
             from == IF LineStart(lens, i) > off THEN LineStart(lens, i) ELSE off
         IN  (IF inData THEN <<[i |-> i, len |-> LineEnd(lens, i) - from]>> ELSE <<>>)
             \o splitlines(lens, term, size, off, i + 1)

\* lines[-n:]
LastItems(items, n) ==
    IF n = 0 \/ n >= Len(items) THEN items
    ELSE SubSeq(items, Len(items) - n + 1, Len(items))

\* CommandsExecutor.tail on an existing file, after the options: what it prints
tail_lines(lens, term, n) ==
    \* data stays empty when the loop is never entered
    IF FileSize(lens, term) = 0 \/ n < 0 THEN <<>>
    ELSE LastItems(splitlines(lens, term, FileSize(lens, term),
                              read_back(lens, term, n, FileSize(lens, term), 0), 1), n)

\* int(s) for a string given as its characters: -1 stands for ValueError
DigitValue(c) ==
    CASE c = "0" -> 0 [] c = "1" -> 1 [] c = "2" -> 2 [] c = "3" -> 3 [] c = "4" -> 4
      [] c = "5" -> 5 [] c = "6" -> 6 [] c = "7" -> 7 [] c = "8" -> 8 [] c = "9" -> 9
      [] OTHER -> -1
RECURSIVE int(_)
int(s) ==
    IF s = <<>> THEN -1
    ELSE LET d == DigitValue(s[Len(s)])
         IN  IF d < 0 THEN -1
             ELSE IF Len(s) = 1 THEN d
             ELSE LET hi == int(SubSeq(s, 1, Len(s) - 1))
                  IN  IF hi < 0 THEN -1 ELSE 10 * hi + d

\* the options of tail: args[0] is -nN, or -n followed by N, or the file;
\* the value is n and the index of the file argument (n = -1: invalid option)
StartsWithDashN(a) == Len(a) >= 2 /\ a[1] = "-" /\ a[2] = "n"
tail_options(args) ==
    IF ~StartsWithDashN(args[1]) THEN [n |-> 10, file |-> 1]
    ELSE IF Len(args[1]) > 2
         THEN IF Len(args) < 2 THEN [n |-> -1, file |-> 0]
              ELSE [n |-> int(SubSeq(args[1], 3, Len(args[1]))), file |-> 2]
         ELSE IF Len(args) < 3 THEN [n |-> -1, file |-> 0]
              ELSE [n |-> int(args[2]), file |-> 3]

\* CommandsExecutor.tail: args are the option and file arguments as
\* characters, the file argument names the file (lens, term)
tail(args, lens, term) ==
    IF args = <<>> THEN [msg |-> "tail: missing file operand", printed |-> <<>>]
    ELSE \* the file argument is the name of an existing regular file
         IF tail_options(args).n < 0 THEN [msg |-> "tail: invalid option", printed |-> <<>>]
         ELSE [msg |-> "", printed |-> tail_lines(lens, term, tail_options(args).n)]

\* the files and the line counts tail is asked for
MaxFileLines == 3
TailLens == {0, 1, blocksize - 1, blocksize}
TailFiles ==
    {[lens |-> l, term |-> t] :
        l \in UNION {[1..k -> TailLens] : k \in 0..MaxFileLines}, t \in BOOLEAN}
Digit(k) == CASE k = 0 -> "0" [] k = 1 -> "1" [] k = 2 -> "2" [] k = 3 -> "3"
              [] k = 4 -> "4" [] k = 5 -> "5" [] k = 6 -> "6" [] k = 7 -> "7"
              [] k = 8 -> "8" [] OTHER -> "9"
FileName == <<"f">>
TailArgs(k) ==
    {<<<<"-", "n", Digit(k)>>, FileName>>, <<<<"-", "n">>, <<Digit(k)>>, FileName>>}

\* tail -nN FILE and tail -n N FILE on one file
TailFile ==
    /\ ~probe.done
    /\ \E f \in TailFiles, k \in 0..(MaxFileLines + 1) : \E args \in TailArgs(k) :
          /\ (~f.term /\ f.lens # <<>>) => f.lens[Len(f.lens)] > 0
          /\ (f.lens = <<>>) => f.term
          /\ probe' = [done |-> TRUE, args |-> args, N |-> k, file |-> f,
                       result |-> tail(args, f.lens, f.term)]
    /\ UNCHANGED <<fsvars, bvars, sess>>

\* tail on its own, in a session that has just started
TailInit ==
    /\ EngineInit /\ handler = "ok"
    /\ BridgeInit /\ eofmode = "EIO" /\ probe = NoProbe
SpecTail == TailInit /\ [][TailFile]_vars

\* the glob expansion on its own
GlobInit == ProbeInit /\ fs[<<"h", "s", "l">>].target \in {<<"h", "o">>, <<"h", "s", "a">>}
SpecGlob == GlobInit /\ [][ExpandArgs]_vars

SpecResolve == ProbeInit /\ [][ResolveToken]_vars

NextEngine == Cd \/ Pwd \/ Mkdir \/ Rm \/ Touch \/ Echo \/ Cp \/ Mv \/ Chmod \/ Find \/ Cat
              \/ Unknown
              \/ ParseError \/ Exit \/ Blank

NextBridge == Fork \/ ClientSend \/ ClientDisconnect \/ ChildOutput \/ ChildExit
                \/ ReadPty \/ RunTask \/ Receive

Init ==
    /\ EngineInit /\ handler = "ok"
    /\ BridgeInit /\ eofmode = "EIO" /\ probe = NoProbe

\* the engine session
Spec == Init /\ [][NextEngine]_vars

\* several bridge sessions in one event loop
SpecSessions == Init /\ [][NextSessions]_vars

\* the engine session, with a log file that works or with one whose writes
\* fail (a full disk, a stream that was closed)
AuditInit ==
    /\ EngineInit /\ handler \in {"ok", "failing"}
    /\ BridgeInit /\ eofmode = "EIO" /\ probe = NoProbe
SpecAudit == AuditInit /\ [][NextEngine]_vars

\* one bridge session
BridgeStart ==
    /\ EngineInit /\ fs[<<"h", "s", "l">>].target = <<"h", "o">>
    /\ BridgeInit /\ eofmode \in {"zero", "EIO"}
    /\ handler = "ok"
    /\ probe = NoProbe
SpecBridge == BridgeStart /\ [][NextBridge]_vars

\* one bridge session under a fair event loop: the handler, the reader
\* callback and the tasks run when they can; the remote caller and the child
\* owe nothing
FairBridge ==
    /\ SpecBridge
    /\ WF_vars(Fork) /\ WF_vars(Receive) /\ WF_vars(RunTask) /\ WF_vars(ReadPty)

\* ------------------------------------------------------------------ claims
Outside(p) == ~Inside(sandbox_root, p)

\* C1: for every cursor inside the root and every token (relative or
\* absolute, with ".." segments, with or without links on the way),
\* resolve_read either raises SandboxError or returns a path that, links and
\* ".." resolved, is the root or a descendant of it.
C1_ReadConfined ==
    (probe.done /\ ~probe.rd.err) =>
        /\ Inside(sandbox_root, probe.rd.path)
        /\ Inside(sandbox_root, Resolve(fs, probe.rd.path))

\* a token that leaves the root through ".." or through the link and comes
\* back is accepted
C1_Witness ==
    /\ probe.done
    /\ ~probe.rd.err
    /\ \E i \in DOMAIN probe.tok.parts : probe.tok.parts[i] = ".."
    /\ \E i \in DOMAIN probe.tok.parts : probe.tok.parts[i] = "l"
    /\ Outside(fs[<<"h", "s", "l">>].target)

\* C3: whenever resolve_write returns a path, that path, links and ".."
\* resolved, is the root or a descendant of it.
C3_WriteTargetInside ==
    (probe.done /\ ~probe.wr.err) => Inside(sandbox_root, Resolve(fs, probe.wr.path))

\* resolve_write accepts ".." at the root
C3_Witness ==
    /\ probe.done
    /\ ~probe.wr.err
    /\ probe.tok = Tok(<<"..">>)
    /\ cwd = sandbox_root

\* C2: after any sequence of command lines nothing outside the root has been
\* created, overwritten, moved, removed or had its mode or timestamps changed.
C2_OutsideUntouched ==
    \A p \in DOMAIN fs \cup DOMAIN fs0 :
        Outside(p) => p \in DOMAIN fs /\ p \in DOMAIN fs0 /\ fs[p] = fs0[p]

\* a line that wrote has run and the tree outside the root differs
C2_Witness ==
    /\ last \in {"cp", "chmod", "touch", "mv", "echo", "mkdir"}
    /\ \E p \in DOMAIN fs \cup DOMAIN fs0 :
          Outside(p) /\ (p \notin DOMAIN fs \/ p \notin DOMAIN fs0 \/ fs[p] # fs0[p])

\* C4: in every reachable state of a session the cursor is the root or a
\* descendant of it (as written and with links resolved); it starts at the
\* root.
C4_CursorInside ==
    /\ Inside(sandbox_root, cwd)
    /\ Inside(sandbox_root, Resolve(fs, cwd))
    /\ ncmds = 0 => cwd = sandbox_root

\* a cd has moved the cursor below the root
C4_Witness == last = "cd" /\ cwd # sandbox_root /\ out = <<>>

\* C5: the cursor changes only in a cd that succeeds (it prints nothing and
\* its target is a directory); every other line leaves it alone; the root
\* never changes.
C5_CursorFrame ==
    [][/\ cwd' # cwd => last' = "cd" /\ out' = <<>> /\ PIsDir(fs, cwd')
       /\ sandbox_root' = sandbox_root]_vars

\* a cd has failed below the root and the cursor is where it was
C5_Witness == last = "cd" /\ out # <<>> /\ cwd # sandbox_root /\ ncmds >= 2

StepNames(tl) == [i \in DOMAIN tl |-> tl[i].step]
Allocated == child # "none"

\* C6: in a bridge session whose pseudo-terminal was allocated the teardown
\* runs exactly once: one close of the master descriptor and one SIGTERM to
\* the child, however disconnect, EOF and read or write errors interleave.
C6_TeardownOnce ==
    /\ Cardinality(Steps(tlog, "remove_reader")) <= 1
    /\ Cardinality(Steps(tlog, "close")) <= 1
    /\ Cardinality(Steps(tlog, "kill")) <= 1
    /\ nsig <= 1
    /\ (pc = "done" /\ Allocated) =>
          /\ Cardinality(Steps(tlog, "close")) = 1
          /\ Cardinality(Steps(tlog, "kill")) = 1
          /\ master_fd = "closed"
    /\ pc # "done" => tlog = <<>> /\ nsig = 0

\* the remote caller went away while the close of an EOF was still waiting
\* to run
C6_Witness ==
    /\ pc = "done"
    /\ eofSeen
    /\ closecode = 0
    /\ tasks # <<>> /\ Head(tasks) = CloseTask

\* C7: when the handler of an allocated session finishes, the descriptor has
\* been deregistered, then closed, then the child sent SIGTERM, in that
\* order; a step that fails does not skip the later ones.
C7_TeardownOrder ==
    (pc = "done" /\ Allocated) =>
        /\ StepNames(tlog) = <<"remove_reader", "close", "kill">>
        /\ ~reader
        /\ master_fd = "closed"

\* the first two steps failed, the kill was still made, and the handler is
\* done while the child runs
C7_Witness ==
    /\ pc = "done"
    /\ Len(tlog) = 3
    /\ ~tlog[1].ok /\ ~tlog[2].ok /\ tlog[3].ok
    /\ child = "running"

\* C8: once a read of the master descriptor has returned zero bytes the
\* session is eventually torn down, and stays so: reader deregistered,
\* descriptor closed, child signalled.
C8_EofLeadsToTeardown ==
    eofSeen ~> [](pc = "done" /\ ~reader /\ master_fd = "closed"
                    /\ Steps(tlog, "kill") # {})

\* the teardown came from the close that the EOF scheduled
C8_Witness == eofSeen /\ pc = "done" /\ closecode = 1000 /\ nmsgs = 0

\* C9: once a read of the master descriptor has raised, the session is
\* eventually torn down without the remote caller disconnecting.
C9_ErrorLeadsToTeardown == errSeen ~> (pc = "done")

\* a read has raised and the session is as it was: reader registered,
\* descriptor open, nothing scheduled
C9_Witness ==
    /\ errSeen
    /\ pc = "loop" /\ reader /\ master_fd = "open"
    /\ tasks = <<>> /\ inbox = <<>> /\ wsstate = "open"

\* C10: no text message that is a JSON object of type "resize" is written to
\* the master descriptor.
C10_ResizeNotForwarded ==
    \A i \in DOMAIN written :
        written[i].text = <<>> \/ ~IsResize(written[i].text[1])

\* a resize message with rows that int() refuses is in the written payloads
C10_Witness ==
    \E i \in DOMAIN written :
        /\ written[i].text # <<>>
        /\ IsResize(written[i].text[1])
        /\ ~py_int(dict_get(written[i].text[1].doc.rows, 24)).ok

Taken == nmsgs - Cardinality({i \in DOMAIN inbox : inbox[i].type = "websocket.receive"})

\* C12: inbound messages are handled one at a time in arrival order: payloads
\* are written to the master descriptor in the order received, each while its
\* own message is the one being handled, and a resize has set the window size
\* before any later message is taken.
C12_InboundOrder ==
    [][/\ \A i, j \in DOMAIN written' : i < j => written'[i].seq < written'[j].seq
       /\ \A i \in DOMAIN inbox' :
             inbox'[i].type = "websocket.receive" => inbox'[i].seq > Taken'
       /\ \A i, j \in DOMAIN inbox' :
             (i < j /\ inbox'[j].type = "websocket.receive") => inbox'[i].seq < inbox'[j].seq
       /\ written' # written =>
             /\ Taken' = Taken + 1
             /\ written' = Append(written, written'[Len(written')])
             /\ written'[Len(written')].seq = Taken'
             /\ winsize' = winsize
       /\ winsize' # winsize =>
             /\ Taken' = Taken + 1
             /\ winsize'.seq = Taken'
             /\ written' = written]_vars

\* a resize was applied and the payload that came after it was then written
C12_Witness ==
    /\ winsize.seq = 1
    /\ Len(written) = 1 /\ written[1].seq = 2

\* the message ws.receive() returns next is not a resize control message
NextIsInput ==
    /\ pc = "loop"
    /\ inbox # <<>>
    /\ Head(inbox).type = "websocket.receive"
    /\ Head(inbox).text = <<>> \/ ~IsResize(Head(inbox).text[1])

\* the bytes of a message as they stand: a binary message as it is, a text
\* message as the UTF-8 encoding of the whole text
Verbatim(m) ==
    [enc |-> IF m.text # <<>> THEN "utf-8" ELSE "raw",
     text |-> m.text, bytes |-> m.bytes, seq |-> m.seq]

\* C13: every inbound payload that is not a resize control message is written
\* verbatim to the master descriptor (nothing is written only when the write
\* itself fails, the child being gone).
C13_Verbatim ==
    [][(NextIsInput /\ inbox' = Tail(inbox)) =>
          \/ written' = Append(written, Verbatim(Head(inbox)))
          \/ child # "running" /\ written' = written]_vars

\* text that starts with "{" without being JSON, and JSON of another type
\* with white space before it, both written as they came
C13_Witness ==
    /\ Len(written) = 2
    /\ written[1].text = <<JunkText>>
    /\ written[2].text = <<ObjText(TRUE, "ping", JAbsent, JAbsent)>>
    /\ child = "running"

\* pty.fork() raised: the handler is past the fork and there is no child
ForkFailed == pc # "fork" /\ child = "none"

\* C14: if pty.fork fails the session is aborted before any relay: the handler
\* is over, no reader was registered, no inbound message was read or written,
\* nothing was sent, no teardown step ran, and the connection, when the remote
\* caller still held it, is closed with the error close code 1011.
C14_ForkFailureAborts ==
    /\ [](ForkFailed =>
            /\ pc = "done"
            /\ ~reader /\ master_fd = "none"
            /\ Taken = 0 /\ written = <<>> /\ winsize.seq = 0
            /\ tasks = <<>> /\ sent = <<>> /\ tlog = <<>>
            /\ wsstate = "closed")
    /\ [][(pc = "fork" /\ pc' = "done" /\ wsstate = "open") => closecode' = 1011]_vars

\* the fork failed while two messages of the remote caller were waiting
C14_Witness == ForkFailed /\ closecode = 1011 /\ nmsgs = 2 /\ Len(inbox) = 3

\* C15: if the exec of `python main.py` in the child fails, the session is
\* aborted: the relay never runs against that child (no reader registered, no
\* message taken, nothing sent) and the child does not go on running the
\* bridge's own code.
C15_ExecFailureAborts ==
    image = "server" =>
        /\ pc = "done" /\ ~reader
        /\ Taken = 0 /\ sent = <<>>
        /\ child # "running"

\* the relay at work against a child that is a copy of the server: its output
\* sent to the remote caller, the caller's input written to it
C15_Witness ==
    /\ image = "server" /\ child = "running" /\ pc = "loop"
    /\ Len(sent) = 1 /\ Len(written) = 1

\* C16: no command line makes the loop of run stop except exit/quit: no
\* handler lets an exception other than SandboxError escape, so the engine is
\* never ended by an error of a command.
C16_ErrorsAreText == engine # "crashed"

\* mkdir with a missing parent ended the engine
C16_Witness == engine = "crashed" /\ last = "mkdir" /\ fs = fs0

\* C17: the engine has two states, running and terminated, and the only
\* transition out of running is a line whose command name is exit or quit; an
\* unrecognized command name prints the unknown-command message and leaves the
\* engine running, and a line that fails to tokenize leaves it running.
C17_OnlyExitTerminates ==
    [][/\ engine' \in {"running", "terminated"}
       /\ (engine = "running" /\ engine' # "running") => last' \in {"exit", "quit"}
       /\ (ncmds' # ncmds /\ last' = "frob") =>
              /\ engine' = "running"
              /\ out' = <<Msg("Unknown command", Tok(<<"frob">>))>>
       /\ (ncmds' # ncmds /\ last' = "'") => engine' = "running"]_vars

\* a line that is neither exit nor quit ended the engine, after an unknown
\* command and a line that failed to tokenize had left it running
C17_Witness == engine = "crashed" /\ last = "rm" /\ ncmds = 3 /\ fs = fs0

\* the line just executed reported a confinement violation
Denied(o) == \E i \in DOMAIN o : o[i].k \in {ReadDenied, WriteDenied}

\* C18: a command that reports a confinement violation has made no change to
\* the file tree, cp and mv with several sources of which a later one is
\* rejected included.
C18_DeniedChangesNothing ==
    [][(ncmds' # ncmds /\ Denied(out')) => fs' = fs]_vars

\* cp a .. b: a was copied into the directory b before .. was rejected
C18_Witness ==
    /\ last = "cp" /\ Denied(out)
    /\ <<"h", "s", "b", "a">> \in DOMAIN fs
    /\ <<"h", "s", "a">> \in DOMAIN fs

\* the paths a pattern stands for: the pattern with every wildcard component
\* replaced by a name that component matches, such that the path is there
PatternPaths(f, pat) ==
    LET mag == {i \in DOMAIN pat : pat[i] \in MagicComps}
        names == {q[Len(q)] : q \in DOMAIN f \ {<<>>}}
    IN  {m \in {[i \in DOMAIN pat |-> IF i \in mag THEN g[i] ELSE pat[i]] : g \in [mag -> names]} :
            /\ \A i \in mag : fnmatch(m[i], pat[i])
            /\ LStat(f, m).ok}

\* what the claim lets one token become: the paths of the pattern taken
\* relative to the cursor, those relative to the root only if there are none,
\* each in the place its rank in the lexicographic order gives it (written as
\* the resolved absolute path); the token itself without wildcard or match
TokenExpansion(f, a, cur, root) ==
    IF ~has_magic(a.parts) THEN <<a>>
    ELSE With(PatternPaths(f, Join(cur, a)), LAMBDA M1 :
         With(IF M1 # {} THEN M1 ELSE PatternPaths(f, Join(root, a)), LAMBDA M :
         IF M = {} THEN <<a>>
         ELSE [i \in 1..Cardinality(M) |->
                  AbsTok(Resolve(f, CHOOSE m \in M :
                                       Cardinality({y \in M : PathLess(y, m)}) = i - 1))]))

RECURSIVE ListExpansion(_, _, _, _)
ListExpansion(f, args, cur, root) ==
    IF args = <<>> THEN <<>>
    ELSE TokenExpansion(f, Head(args), cur, root) \o ListExpansion(f, Tail(args), cur, root)

\* C20: glob expansion of an argument list: a token with a wildcard is matched
\* relative to the cursor, relative to the root only if that gives nothing,
\* and kept literally if that gives nothing either; the matches, sorted,
\* replace the token in place, and every other token keeps its value and
\* its place in the order.
C20_GlobExpansion ==
    probe.done => probe.expanded = ListExpansion(fs, probe.args, cwd, sandbox_root)

\* `x * a` in the empty directory a: nothing matches at the cursor, the
\* root's a and l replace the token between the two plain ones
C20_Witness ==
    /\ probe.done
    /\ probe.args = <<Word, Tok(<<"*">>), Tok(<<"a">>)>>
    /\ cwd = <<"h", "s", "a">> /\ PIsDir(fs, cwd) /\ <<"h", "s", "a", "b">> \notin DOMAIN fs
    /\ fs[<<"h", "s", "l">>].target = <<"h", "o">>
    /\ probe.expanded = <<Word, AbsTok(<<"h", "s", "a">>), AbsTok(<<"h", "o">>), Tok(<<"a">>)>>

\* a file system identical inside the root and different outside it: one more
\* directory next to the root
Twin(f) == Put(f, <<"h", "p">>, Dir(DirMode, 0))

\* the part of a file system under the root
InsideOf(f) == [q \in {q \in DOMAIN f : Inside(sandbox_root, q)} |-> f[q]]

\* an echo line run on f: what it prints, raises and leaves
EchoLine(f, raw_args) ==
    With(echo(f, sandbox_root, cwd, expand_args_with_glob(f, raw_args, cwd, sandbox_root)),
         LAMBDA r : [out |-> r.out, exc |-> r.exc, se |-> r.se, cwd |-> r.cwd,
                     inside |-> InsideOf(r.fs)])

\* C19: no command reads or lists anything outside the root: on two file
\* systems identical inside the root and different outside it a line gives
\* the same output and the same state, lines with glob tokens that are
\* absolute or contain .. included (here: every echo line, from every state
\* the session reaches).
C19_OutsideUnobservable ==
    engine = "running" =>
        \A args \in EchoArgs : EchoLine(fs, args) = EchoLine(Twin(fs), args)

\* echo ../* has printed the root's siblings
C19_Witness ==
    /\ last = "echo" /\ Len(out) = 1
    /\ out[1].words = <<AbsTok(<<"h", "o">>), AbsTok(<<"h", "s">>)>>
    /\ cwd = sandbox_root

\* what a line prints, as a set
Printed(o) == {o[i] : i \in DOMAIN o}

\* the entries under a directory whose names match a one-component pattern,
\* as find prints them
Matching(f, start, p) ==
    {Msg("find", to_sandbox_posix(q, sandbox_root)) :
        q \in {q \in DOMAIN f : IsPrefix(start, q) /\ q # start /\ fnmatch(q[Len(q)], p)}}

\* C21: the line `find START -name PATTERN` prints exactly the files and
\* directories under START whose names match PATTERN, also when PATTERN matches
\* entries of the cursor directory (here START is the cursor directory, from
\* every state the session reaches).
C21_FindByName ==
    engine = "running" /\ PIsDir(fs, cwd) =>
        \A p \in FindPatterns :
            Printed(find(fs, sandbox_root, cwd, Expanded(<<Tok(<<>>), DashName, p>>)).out)
                = Matching(fs, cwd, p.parts[1])

\* a find line with -name printed nothing at the root, where a is a
\* directory that holds b
C21_Witness ==
    /\ last = "find" /\ out = <<>> /\ engine = "running"
    /\ cwd = sandbox_root
    /\ IsDir(fs, <<"h", "s", "a">>) /\ <<"h", "s", "a", "b">> \in DOMAIN fs

\* the file names the round trip is tried on
RoundTripNames == {Tok(<<"a">>), Tok(<<"b">>), Tok(<<"a", "b">>)}

\* C22: round trip of echo and cat: `echo T > f` followed by `cat f` outputs
\* exactly T followed by one line terminator, with no extra blank line (for
\* every state the session reaches and every name the echo can write to).
C22_EchoCatRoundTrip ==
    engine = "running" =>
        \A t \in RoundTripNames :
            With(echo(fs, sandbox_root, cwd, <<Word, GT, t>>), LAMBDA w :
                w.exc = "none" =>
                    cat(w.fs, sandbox_root, cwd, <<t>>).out = <<TextLine(<<Word>>)>>)

\* cat of a file of one line has printed the line and an empty line
C22_Witness ==
    /\ last = "cat" /\ out = <<TextLine(<<Word>>), TextLine(<<>>)>>
    /\ \E q \in DOMAIN fs : IsFile(fs, q) /\ fs[q].data = <<<<Word>>>>

\* the file an accepted destination token stands for when it is opened
Destination(f, t) == Stat(f, resolve_write(f, sandbox_root, cwd, t).path).p

\* an echo line with a redirection that wrote: nothing printed, nothing raised
Wrote(r) == r.exc = "none" /\ r.out = <<>>

\* the effect the claim gives a redirected echo of the words `text` to t on
\* f, with r what the line did
Redirected(f, r, text, marker, t) ==
    With(Destination(r.fs, t), LAMBDA d :
        /\ IsFile(r.fs, d)
        /\ r.fs[d].data = (IF marker = GTGT /\ d \in DOMAIN f THEN f[d].data ELSE <<>>)
                          \o <<text>>
        /\ DOMAIN r.fs = DOMAIN f \cup {d}
        /\ \A q \in DOMAIN f \ {d} : r.fs[q] = f[q]
        /\ r.cwd = cwd)

\* C23: echo with a `>` or `>>` token prints nothing and writes the tokens
\* before the marker as one line to the write-resolved destination, `>`
\* replacing the contents and `>>` adding to their end; after `>`, `>>`, `>`
\* to one file its contents are the last line alone, after `>`, `>>` the two
\* lines in order (whenever the destination is accepted and can be opened).
C23_EchoRedirect ==
    engine = "running" =>
        \A t \in DestToks, marker \in {GT, GTGT} :
            With(echo(fs, sandbox_root, cwd, <<Word, Tok(<<"a">>), marker, t>>), LAMBDA r1 :
                /\ r1.exc = "none" => Wrote(r1) /\ Redirected(fs, r1, <<Word, Tok(<<"a">>)>>, marker, t)
                /\ (r1.exc = "none" /\ marker = GT) =>
                      With(echo(r1.fs, sandbox_root, cwd, <<Tok(<<"b">>), GTGT, t>>), LAMBDA r2 :
                          /\ Wrote(r2)
                          /\ r2.fs[Destination(r2.fs, t)].data = <<<<Word, Tok(<<"a">>)>>, <<Tok(<<"b">>)>>>>
                          /\ With(echo(r2.fs, sandbox_root, cwd, <<Word, GT, t>>), LAMBDA r3 :
                                Wrote(r3) /\ r3.fs[Destination(r3.fs, t)].data = <<<<Word>>>>)))

\* a file holds two lines, the second added by the echo line just executed
C23_Witness ==
    /\ last = "echo" /\ out = <<>> /\ engine = "running"
    /\ \E q \in DOMAIN fs : IsFile(fs, q) /\ fs[q].data = <<<<Word>>, <<Word>>>>

\* a line that did its work: nothing raised, nothing printed
Succeeded(r) == r.exc = "none" /\ r.out = <<>>

\* the names mkdir is tried on
MkdirNames == SrcToks \cup {Tok(<<"a", "b">>), Tok(<<"b", "a">>)}

\* C24: mkdir idempotence: `mkdir -p d` run twice succeeds both times and the
\* second run leaves the tree of the first; `mkdir d` run twice reports an
\* already-exists error the second time and leaves the tree unchanged (for
\* every state the session reaches and every d the first run succeeds on).
C24_MkdirIdempotence ==
    engine = "running" =>
        \A d \in MkdirNames :
            /\ With(mkdir(fs, sandbox_root, cwd, <<Tok(<<"-p">>), d>>), LAMBDA r1 :
                  Succeeded(r1) =>
                      With(mkdir(r1.fs, sandbox_root, cwd, <<Tok(<<"-p">>), d>>), LAMBDA r2 :
                          Succeeded(r2) /\ r2.fs = r1.fs)
                      /\ PIsDir(r1.fs, Join(cwd, d)))
            /\ With(mkdir(fs, sandbox_root, cwd, <<d>>), LAMBDA s1 :
                  Succeeded(s1) =>
                      With(mkdir(s1.fs, sandbox_root, cwd, <<d>>), LAMBDA s2 :
                          /\ s2.exc = "none"
                          /\ s2.out = <<Msg("mkdir: File exists", d)>>
                          /\ s2.fs = s1.fs))

\* a line created the directory a and the next line, `mkdir a`, has reported
\* that it exists
C24_Witness ==
    /\ last = "mkdir" /\ ncmds = 2 /\ engine = "running"
    /\ IsDir(fs, <<"h", "s", "a">>) /\ fs[<<"h", "s", "a">>].mt = 1
    /\ out = <<Msg("mkdir: File exists", Tok(<<"a">>))>>

\* the flags rm takes for recursive
RecursiveFlags == {Tok(<<"-r">>), Tok(<<"-rf">>), Tok(<<"-fr">>)}

\* C25: rm on an existing directory without a recursive flag reports a
\* directory-type error and leaves the directory and everything under it
\* unchanged; with -r, -rf or -fr it removes the directory and all its
\* contents (and nothing else); rm on a missing target reports the missing
\* target and changes nothing.  The target is what the argument resolves to
\* inside the root, for every argument and every state the session reaches.
C25_RmDirectory ==
    engine = "running" =>
        \A t \in Toks :
            With(resolve_read(fs, sandbox_root, cwd, t), LAMBDA rr :
            With(to_sandbox_posix(rr.path, sandbox_root), LAMBDA shown :
                /\ (~rr.err /\ PIsDir(fs, rr.path)) =>
                      /\ With(rm(fs, sandbox_root, cwd, <<t>>), LAMBDA r :
                            /\ r.exc = "none" /\ r.fs = fs
                            /\ r.out = <<Msg("rm: Is a directory (use -r)", shown)>>)
                      /\ \A fl \in RecursiveFlags :
                            With(rm(fs, sandbox_root, cwd, <<fl, t>>), LAMBDA r :
                                /\ Succeeded(r)
                                /\ DOMAIN r.fs = {q \in DOMAIN fs : ~IsPrefix(rr.path, q)}
                                /\ \A q \in DOMAIN r.fs : r.fs[q] = fs[q])
                /\ (~rr.err /\ ~Exists(fs, rr.path)) =>
                      \A args \in {<<t>>, <<Tok(<<"-r">>), t>>} :
                          With(rm(fs, sandbox_root, cwd, args), LAMBDA r :
                              /\ r.exc = "none" /\ r.fs = fs
                              /\ r.out = <<Msg("rm: No such file or directory", shown)>>)))

\* `rm a` has refused the directory a, which holds b
C25_Witness ==
    /\ last = "rm" /\ engine = "running"
    /\ out = <<Msg("rm: Is a directory (use -r)", Tok(<<"a">>))>>
    /\ IsDir(fs, <<"h", "s", "a">>) /\ <<"h", "s", "a", "b">> \in DOMAIN fs

\* what pwd prints for the cursor c: one line, an absolute path whose
\* components, appended to the root, give c
PrintsCursor(r, c) ==
    /\ r.exc = "none" /\ Len(r.out) = 1
    /\ r.out[1].k = "pwd" /\ r.out[1].t.abs
    /\ sandbox_root \o r.out[1].t.parts = c

DotDot == Tok(<<"..">>)

SeveralSources == {<<s1, s2>> : s1 \in SrcToks, s2 \in {Tok(<<"a">>), Tok(<<"b">>)}}
TransferDests == DestToks \cup {Tok(<<"b", "a">>)}

\* C27: cp and mv with more than one source look at the destination before
\* any transfer: when the destination (accepted by resolve_write) is missing
\* or is not a directory, the command reports its error, raises nothing and
\* leaves the whole tree as it was, so no source is copied or moved.
C27_DestinationFirst ==
    engine = "running" =>
        \A srcs \in SeveralSources, d \in TransferDests :
            With(resolve_write(fs, sandbox_root, cwd, d), LAMBDA rw :
                (~rw.err /\ ~PIsDir(fs, rw.path)) =>
                    /\ With(cp(fs, sandbox_root, cwd, Append(srcs, d)), LAMBDA r :
                          /\ r.exc = "none" /\ r.fs = fs
                          /\ r.out = <<Msg("cp: target is not a directory",
                                           to_sandbox_posix(rw.path, sandbox_root))>>)
                    /\ With(mv(fs, sandbox_root, cwd, Append(srcs, d)), LAMBDA r :
                          /\ r.exc = "none" /\ r.fs = fs
                          /\ r.out = <<Msg("mv: destination must be an existing directory",
                                           NoTok)>>))

\* `cp a b b` has been refused while a is a file and b is a file, not a
\* directory
C27_Witness ==
    /\ last = "cp" /\ engine = "running"
    /\ out = <<Msg("cp: target is not a directory", Tok(<<"b">>))>>
    /\ IsFile(fs, <<"h", "s", "a">>) /\ IsFile(fs, <<"h", "s", "b">>)

\* the source s cannot be transferred: it is rejected by resolve_read or
\* resolves to nothing
FailingSource(f, s) ==
    With(resolve_read(f, sandbox_root, cwd, s), LAMBDA rr : rr.err \/ ~Exists(f, rr.path))

\* the source s is a regular file inside the root, named as it is called
GoodSource(f, s) ==
    With(resolve_read(f, sandbox_root, cwd, s), LAMBDA rr :
        ~rr.err /\ PIsFile(f, rr.path) /\ rr.path = Join(cwd, s))

\* the command r did not end the engine and left a regular file at `to`
Transferred(r, to) == r.exc # "error" /\ PIsFile(r.fs, to)

\* C28: with several sources and a destination that is a directory, a source
\* that fails (rejected by the confinement check, or missing) does not stop
\* the command: a regular file named after it is still transferred into the
\* destination, by cp and by mv, and the command raises nothing but the
\* report for the failing source.
C28_RemainingProcessed ==
    engine = "running" =>
        \A bad \in SrcToks, good \in {Tok(<<"a">>), Tok(<<"b">>)}, d \in {Tok(<<"a">>), Tok(<<"b">>)} :
            (/\ bad # good /\ good # d
             /\ PIsDir(fs, Join(cwd, d)) /\ Resolve(fs, Join(cwd, d)) = Join(cwd, d)
             /\ FailingSource(fs, bad) /\ GoodSource(fs, good)) =>
                /\ Transferred(cp(fs, sandbox_root, cwd, <<bad, good, d>>), Join(cwd, d) \o good.parts)
                /\ Transferred(mv(fs, sandbox_root, cwd, <<bad, good, d>>), Join(cwd, d) \o good.parts)

\* `cp .. a b` at the root, a a file and b a directory: the rejection of ..
\* was printed and a was not copied into b
C28_Witness ==
    /\ last = "cp" /\ engine = "running" /\ cwd = sandbox_root
    /\ out = <<Msg(ReadDenied, Tok(<<"..">>))>>
    /\ IsFile(fs, <<"h", "s", "a">>) /\ IsDir(fs, <<"h", "s", "b">>)
    /\ <<"h", "s", "b", "a">> \notin DOMAIN fs

\* what the line l does in the present state when nothing but the command
\* itself acts: the handler of the command on the expanded arguments, the
\* messages for a line that does not tokenize and for an unknown command,
\* EOFError for exit and quit
Outcome(l) ==
    With(Expanded(l.args), LAMBDA args :
    CASE l.cmd = "cd" -> cd(fs, sandbox_root, cwd, args)
      [] l.cmd = "pwd" -> pwd(fs, sandbox_root, cwd, args)
      [] l.cmd = "mkdir" -> mkdir(fs, sandbox_root, cwd, args)
      [] l.cmd = "rm" -> rm(fs, sandbox_root, cwd, args)
      [] l.cmd = "touch" -> touch(fs, sandbox_root, cwd, args)
      [] l.cmd = "echo" -> echo(fs, sandbox_root, cwd, args)
      [] l.cmd = "cp" -> cp(fs, sandbox_root, cwd, args)
      [] l.cmd = "mv" -> mv(fs, sandbox_root, cwd, args)
      [] l.cmd = "chmod" -> chmod(fs, sandbox_root, cwd, args)
      [] l.cmd = "find" -> find(fs, sandbox_root, cwd, args)
      [] l.cmd = "cat" -> cat(fs, sandbox_root, cwd, args)
      [] l.cmd \in {"exit", "quit"} -> R(fs, cwd, <<>>, "EOFError")
      [] l.cmd = "'" -> R(fs, cwd, <<Msg("Parse error", NoTok)>>, "none")
      [] OTHER -> R(fs, cwd, <<Msg("Unknown command", Tok(<<l.cmd>>))>>, "none"))

\* the step is the line l run to its end, as if there were no log
RanAs(l) ==
    \E r \in {Outcome(l)} :
        /\ fs' = r.fs /\ cwd' = r.cwd
        /\ out' = IF r.exc = "SandboxError" THEN Append(r.out, r.se) ELSE r.out
        /\ engine' = "crashed" <=> r.exc = "error"
        /\ engine' = "terminated" <=> r.exc = "EOFError"

\* C29: every non-blank line given to the engine adds exactly one record to
\* the log while the log works, and the record carries the line as typed
\* (the arguments before expansion) and the cursor as it was before the
\* command ran; this holds for unknown commands, lines that do not tokenize,
\* exit and quit as well; a blank line adds none.  When the writes of the log
\* fail, no record is added and the line still runs to the end it has without
\* the log: the same tree, cursor, output, and the same way of ending.
C29_AuditRecord ==
    [][ncmds' # ncmds =>
        IF line'.cmd = "" THEN audit' = audit
        ELSE /\ RanAs(line')
             /\ IF handler = "ok"
                THEN audit' = [n |-> audit.n + 1, line |-> line', cwd |-> cwd]
                ELSE audit' = audit]_vars

\* `mkdir a`, `cd a` and a line that does not tokenize were given to a session
\* whose log works: the log has three records, the last with that line and
\* the cursor a
C29_Witness ==
    /\ handler = "ok" /\ last = "'" /\ ncmds = 3 /\ engine = "running"
    /\ cwd = sandbox_root \o <<"a">> /\ sandbox_root \o <<"a">> \notin DOMAIN fs0
    /\ audit = [n |-> 3, line |-> Line("'", <<>>), cwd |-> sandbox_root \o <<"a">>]

\* the command r printed nothing, raised nothing and left the cursor at c
CursorAt(r, c) == Succeeded(r) /\ r.cwd = c

\* C30: while the root directory is in place, `cd` with no argument and
\* `cd /` both move the cursor to the sandbox root from every cursor, and cd
\* given the path pwd prints for a cursor that is a directory leads to that
\* same cursor.
C30_CdAcceptsPwd ==
    (engine = "running" /\ PIsDir(fs, sandbox_root)) =>
        /\ CursorAt(cd(fs, sandbox_root, cwd, <<>>), sandbox_root)
        /\ CursorAt(cd(fs, sandbox_root, cwd, <<AbsTok(<<>>)>>), sandbox_root)
        /\ PIsDir(fs, cwd) =>
              \E p \in {pwd(fs, sandbox_root, cwd, <<>>)} :
                  CursorAt(cd(fs, sandbox_root, cwd, <<p.out[1].t>>), cwd)

\* `mkdir a`, `cd a`, `cd /`: the last line was rejected and the cursor is
\* still a
C30_Witness ==
    /\ line = Line("cd", <<AbsTok(<<>>)>>) /\ ncmds = 3 /\ engine = "running"
    /\ out = <<Msg(ReadDenied, AbsTok(<<>>))>>
    /\ cwd = sandbox_root \o <<"a">> /\ IsDir(fs, cwd)

\* C34: in every state of a running session the cursor and the confinement
\* root name existing directories, whatever rm -r and mv were applied to.
C34_CursorExists ==
    engine = "running" => PIsDir(fs, cwd) /\ PIsDir(fs, sandbox_root)

\* `mkdir a`, `cd a`, `rm -r .`: the cursor a is gone and the session goes on
C34_Witness ==
    /\ line = Line("rm", <<Tok(<<"-r">>), Tok(<<>>)>>) /\ ncmds = 3 /\ engine = "running"
    /\ out = <<>> /\ cwd = sandbox_root \o <<"a">> /\ cwd \notin DOMAIN fs
    /\ PIsDir(fs, sandbox_root)

\* the source s is accepted by resolve_read and is not a regular file (it is
\* missing, or a directory), so cp of several sources cannot copy it
Uncopyable(f, s) ==
    With(resolve_read(f, sandbox_root, cwd, s), LAMBDA rr : ~rr.err /\ ~PIsFile(f, rr.path))

\* the output o has a line about the path the token s resolves to
Names(o, f, s) ==
    \E i \in DOMAIN o :
        o[i].t = to_sandbox_posix(resolve_read(f, sandbox_root, cwd, s).path, sandbox_root)

\* C31: an operation that cannot be carried out prints a line naming the
\* offending path: cp of several sources into a directory, one of which is
\* missing or is a directory, prints a line about that source, and find on a
\* start that does not exist prints a line about it; neither finishes in
\* silence with nothing done.
C31_NoSilentNoOp ==
    engine = "running" =>
        /\ \A srcs \in SeveralSources, d \in {Tok(<<"a">>), Tok(<<"b">>)} :
              (/\ PIsDir(fs, Join(cwd, d)) /\ ~resolve_write(fs, sandbox_root, cwd, d).err
               /\ \A i \in DOMAIN srcs : ~resolve_read(fs, sandbox_root, cwd, srcs[i]).err)
              => \E r \in {cp(fs, sandbox_root, cwd, Append(srcs, d))} :
                    \A i \in DOMAIN srcs :
                        Uncopyable(fs, srcs[i]) => Names(r.out, fs, srcs[i])
        /\ \A s \in {Tok(<<"a">>), Tok(<<"b">>)} :
              (~resolve_read(fs, sandbox_root, cwd, s).err /\ ~Exists(fs, Join(cwd, s)))
              => Names(find(fs, sandbox_root, cwd, <<s>>).out, fs, s)

\* `mkdir b`, `cp a b b` with no a: nothing was printed and nothing copied
C31_Witness ==
    /\ line = Line("cp", <<Tok(<<"a">>), Tok(<<"b">>), Tok(<<"b">>)>>)
    /\ ncmds = 2 /\ engine = "running" /\ out = <<>>
    /\ cwd = sandbox_root /\ IsDir(fs, <<"h", "s", "b">>)
    /\ <<"h", "s", "a">> \notin DOMAIN fs
    /\ \A q \in DOMAIN fs : ~(IsPrefix(<<"h", "s", "b">>, q) /\ q # <<"h", "s", "b">>)

\* C32: tail -nN FILE and tail -n N FILE print exactly the last
\* min(N, number of lines) lines of FILE, in file order and each complete,
\* for every N >= 0: nothing for N = 0, also for files longer than one block
\* and files whose last line has no terminator.
C32_TailLastLines ==
    probe.done =>
        LET lens == probe.file.lens
            k == IF probe.N < Len(lens) THEN probe.N ELSE Len(lens)
        IN  /\ probe.result.msg = ""
            /\ probe.result.printed =
                  [j \in 1..k |-> [i |-> Len(lens) - k + j, len |-> lens[Len(lens) - k + j]]]

\* tail -n0 on a file of three lines, the first longer than a block: lines
\* were printed
C32_Witness ==
    /\ probe.done /\ probe.N = 0
    /\ probe.file = [lens |-> <<blocksize, 1, 1>>, term |-> TRUE]
    /\ probe.result.printed # <<>>

\* C33: every read, write, window-size call and close a session makes is on
\* a descriptor number that is, at that moment, the session's own open
\* master descriptor, and every signal goes to its own child: so no call is
\* made on the number once the session has closed it, and none on another
\* session's descriptor or child; a session that has closed its descriptor
\* has no read callback registered or queued.
C33_OwnDescriptorOnly ==
    /\ \A i \in DOMAIN sess.calls : sess.calls[i].owner = sess.calls[i].s
    /\ \A s \in Sessions :
          sess.of[s].pc = "done" => ~sess.of[s].registered /\ ~sess.of[s].queued

\* session 1 has closed descriptor 1 while its read callback was queued and a
\* send task was pending; session 2 then got the same number and has just
\* read from it
C33_Witness ==
    /\ sess.of[1].pc = "done" /\ sess.of[1].fd = 1 /\ sess.of[1].ntasks > 0
    /\ sess.of[2].pc = "loop" /\ sess.of[2].fd = 1
    /\ sess.calls = <<Call(2, "read", 1, sess.fds)>>
====
